---- MODULE Spec2Model ----
(***************************************************************************)
(* Antigravity gateway: the forwarding/retry engine (Forward and           *)
(* ForwardGemini), the streaming handlers (handleStreamingResponse,        *)
(* handleClaudeStreamingResponse, handleGeminiStreamingResponse), the      *)
(* request transformer (buildContents / buildParts), the schema sanitizer  *)
(* (cleanJSONSchema) and its one-time removal diagnostic.                  *)
(*                                                                         *)
(* Strings the code trims are sequences of character tokens: "SP", "TAB",  *)
(* "NL", "CR" are white space, anything else is a visible character.       *)
(* An upstream outcome is an HTTP status, or TransportError when           *)
(* httpUpstream.Do returned an error and no response.                      *)
(***************************************************************************)
EXTENDS Integers, Sequences, FiniteSets, TLC

VARIABLES
    pc,            \* "idle" | "retry" | "done": position of the one call
    req,           \* the call's inputs (operation, body, account, token provider)
    attempt,       \* loop variable of the retry loop, 1..antigravityMaxRetries
    upstreamLog,   \* outcome of every httpUpstream.Do issued, in order
    sleeps,        \* attempts after which sleepAntigravityBackoff ran
    notifyLog,     \* every handleUpstreamError call: attempt, status, site
    client,        \* what was written to the gin context
    result,        \* what the call returned
    handled,       \* "none" | "ok" | "failed": how the response path ended
    usage,         \* ClaudeUsage accumulated by handleStreamingResponse
    spc,           \* "reading" | "finished" | "write_error" | "read_error"
    firstStart,    \* history: usage of the first message_start line, if any
    lastOut,       \* history: output_tokens of the last message_delta with a non-zero count
    nLines,        \* lines read so far
    written,       \* lines written to the client and flushed
    handler,       \* the streaming handler that runs the stream loop
    unflushed,     \* events accepted by c.Writer and not flushed yet
    broken,        \* the client connection failed: c.Writer returns its error
    streamRes,     \* (*antigravityStreamResult, error) the handler returned
    fwdRes,        \* (*ForwardResult, error) the caller of the handler returned
    xpc,           \* position of TransformClaudeToGeminiWithOptions
    xreq,          \* its inputs: thinking enabled, mappedModel, len(messages)
    xi,            \* messages of the conversation taken up so far
    xrole,         \* role of the message at hand, as emitted
    xblk,          \* the content block buildParts handled last
    xadded,        \* parts that block appended
    xblocks,       \* blocks of the message handled so far
    parts,         \* parts of the message at hand
    nBuilt,        \* len(parts) as buildParts returned it
    strippedThinking, \* a thinking block was downgraded to text
    nContents,     \* len(contents)
    thinkingConfig, \* generationConfig.ThinkingConfig is set
    scpc,          \* "input" | "cleaned" | "recleaned": sanitizer calls made
    schema,        \* a tool's input schema
    cleanedOnce,   \* cleanJSONSchema(schema)
    cleanedTwice,  \* cleanJSONSchema(cleanJSONSchema(schema))
    warnedSchemaKeys, \* the process-wide set of keys already reported
    wpc,           \* per request: "idle" | "log", inside warnSchemaKeyRemovedOnce
    wkey,          \* per request: the key of its last warnSchemaKeyRemovedOnce call
    wcalls,        \* per request: keys stripped so far
    diagnostics,   \* per key: removal diagnostics printed
    rpc,           \* model resolution: "input" or "resolved"
    rAccount,      \* what account.GetMappedModel(requestedModel) returns
    rRequested,    \* the requested model
    rResolved,     \* what getMappedModel returned
    gpc,           \* generation config: "input" or "built"
    gReq,          \* the Claude request and the account's override result
    gMapped,       \* mappedModel, the model the request is sent upstream with
    gConfig,       \* the generationConfig built for it
    tpc,           \* buildParts on one tool_result: "input" or "built"
    tBlock,        \* the tool_result block that is the whole content list
    tGemini,       \* allowDummyThought
    tParts,        \* the parts buildParts returned
    rows,          \* table security_secrets: the rows, oldest first
    rows0,         \* the rows the table held before any call
    sop,           \* per caller: the function called and its arguments
    secpc,         \* per caller: where the call stands
    sgen,          \* per caller: the secret it generated
    sret,          \* per caller: what the call returned
    scfg,          \* per caller: cfg.JWT.Secret
    redisTime,     \* the Redis server's clock, in seconds
    redisKeys,     \* the rpm:<account>:<minute> keys: count and expiry
    rpmLog,        \* the IncrementRPM and GetRPM calls answered so far
    cancelled,     \* the inbound request's context has been cancelled
    rfpc,          \* refreshWithRetry: "idle", "loop" or "returned"
    rfCfg,         \* cfg.MaxRetries, cfg.RetryBackoffSeconds and the account
    rfAttempt,     \* the loop variable attempt
    rfLastErr,     \* lastErr
    rfLog,         \* the calls refreshWithRetry made, in order
    rfAccount,     \* account.Credentials, the object in memory
    rfStored,      \* the credentials the account repository holds
    rfCached,      \* the credentials the scheduler cache holds
    rfRet,         \* the error refreshWithRetry returned
    rfCounts,      \* processRefresh: refreshed and failed
    stopCh,        \* TokenRefreshService.stopCh: "open" or "closed"
    wg,            \* TokenRefreshService.wg: the counter of the WaitGroup
    lcEnabled,     \* cfg.Enabled
    lcStarted,     \* Start has been called
    lcLoop,        \* the refreshLoop goroutine: "none", "first", "select", "exited"
    lcStop,        \* per caller of Stop: "idle", "waiting", "returned", "panicked"
    lcCycles,      \* the processRefresh cycles started so far
    lcLate,        \* the cycles started after a Stop had returned
    rlLimit,       \* RateLimiter.Limit: the limit the middleware was built with
    rlTime,        \* the Redis server's clock, in seconds
    rlKeys,        \* the rate_limit:<key>:<ip> counters: count and expiry
    rlLog,         \* the requests the middleware has seen, and what it did
    twScheduled,   \* the names ScheduleRecurring has been called with
    twTimers,      \* the names that have a timer in the timing wheel
    twRunning,     \* the names whose task function is executing
    twCancelled,   \* the names Cancel has returned for
    twRuns,        \* per name: how often the task function has started
    twLate         \* per name: how often it started after Cancel returned

fwdVars == <<pc, req, attempt, upstreamLog, sleeps, notifyLog, client, result, handled>>
strVars == <<usage, spc, firstStart, lastOut, nLines, written>>
hndVars == <<handler, unflushed, broken, streamRes, fwdRes>>
xfVars == <<xpc, xreq, xi, xrole, xblk, xadded, xblocks, parts, nBuilt,
            strippedThinking, nContents, thinkingConfig>>
schVars == <<scpc, schema, cleanedOnce, cleanedTwice>>
warnVars == <<warnedSchemaKeys, wpc, wkey, wcalls, diagnostics>>
resVars == <<rpc, rAccount, rRequested, rResolved>>
genVars == <<gpc, gReq, gMapped, gConfig>>
trVars == <<tpc, tBlock, tGemini, tParts>>
secVars == <<rows, rows0, sop, secpc, sgen, sret, scfg>>
rpmVars == <<redisTime, redisKeys, rpmLog>>
ctxVars == <<cancelled>>
rfVars == <<rfpc, rfCfg, rfAttempt, rfLastErr, rfLog, rfAccount, rfStored,
            rfCached, rfRet, rfCounts>>
lcVars == <<stopCh, wg, lcEnabled, lcStarted, lcLoop, lcStop, lcCycles, lcLate>>
rlVars == <<rlLimit, rlTime, rlKeys, rlLog>>
twVars == <<twScheduled, twTimers, twRunning, twCancelled, twRuns, twLate>>
svcVars == <<rfVars, lcVars, rlVars, twVars>>
extVars == <<resVars, genVars, trVars, secVars, rpmVars, ctxVars>>
coreVars == <<fwdVars, strVars, hndVars, xfVars, schVars, warnVars>>
vars == <<coreVars, extVars, svcVars>>

(* What an operation of one component leaves alone. *)
nonFwdVars == <<strVars, hndVars, xfVars, schVars, warnVars, extVars, svcVars>>
nonStreamVars == <<fwdVars, xfVars, schVars, warnVars, extVars, svcVars>>
nonXfVars == <<fwdVars, strVars, hndVars, schVars, warnVars, extVars, svcVars>>
nonSchVars == <<fwdVars, strVars, hndVars, xfVars, warnVars, extVars, svcVars>>
nonWarnVars == <<fwdVars, strVars, hndVars, xfVars, schVars, extVars, svcVars>>
nonResVars == <<coreVars, genVars, trVars, secVars, rpmVars, ctxVars, svcVars>>
nonGenVars == <<coreVars, resVars, trVars, secVars, rpmVars, ctxVars, svcVars>>
nonTrVars == <<coreVars, resVars, genVars, secVars, rpmVars, ctxVars, svcVars>>
nonSecVars == <<coreVars, resVars, genVars, trVars, rpmVars, ctxVars, svcVars>>
nonRpmVars == <<coreVars, resVars, genVars, trVars, secVars, ctxVars, svcVars>>
nonCtxVars == <<strVars, hndVars, xfVars, schVars, warnVars,
                resVars, genVars, trVars, secVars, rpmVars, svcVars>>
nonRfVars == <<coreVars, extVars, lcVars, rlVars, twVars>>
nonLcVars == <<coreVars, extVars, rfVars, rlVars, twVars>>
nonRlVars == <<coreVars, extVars, rfVars, lcVars, twVars>>
nonTwVars == <<coreVars, extVars, rfVars, lcVars, rlVars>>

----------------------------------------------------------------------------
(* Constants of the program *)

antigravityMaxRetries == 5

TransportError == 0

(* Statuses the stub upstream may answer with. *)
Statuses == {200, 400, 401, 403, 404, 429, 500, 501, 502, 503, 504, 529}

Outcomes == Statuses \cup {TransportError}

(* s.httpUpstream.Do on a request built with ctx: once ctx is cancelled the
   call fails with the context's error. *)
DoOutcomes(ctxCancelled) == IF ctxCancelled THEN {TransportError} ELSE Outcomes

----------------------------------------------------------------------------
(* strings.TrimSpace *)

SpaceChars == {"SP", "TAB", "NL", "CR"}

RECURSIVE TrimLeft(_)
TrimLeft(s) ==
    IF s = <<>> THEN s
    ELSE IF Head(s) \in SpaceChars THEN TrimLeft(Tail(s)) ELSE s

RECURSIVE TrimRight(_)
TrimRight(s) ==
    IF s = <<>> THEN s
    ELSE IF s[Len(s)] \in SpaceChars THEN TrimRight(SubSeq(s, 1, Len(s) - 1)) ELSE s

TrimSpaceIdentity(s) == s

TrimSpace(s) == TrimRight(TrimLeft(s))

----------------------------------------------------------------------------
(* Classification of upstream statuses *)

shouldRetryWithout503(statusCode) == statusCode \in {429, 500, 502, 504, 529}

shouldRetryAlso400(statusCode) == statusCode \in {400, 429, 500, 502, 503, 504, 529}

shouldRetryUpstreamError(statusCode) ==
    statusCode \in {429, 500, 502, 503, 504, 529}

shouldFailoverOnlyListed(statusCode) == statusCode \in {401, 403, 429, 529}

shouldFailoverWithout403(statusCode) ==
    \/ statusCode \in {401, 429, 529}
    \/ statusCode >= 500

shouldFailoverUpstreamError(statusCode) ==
    \/ statusCode \in {401, 403, 429, 529}
    \/ statusCode >= 500

(* What a write to the gin context leaves at the client. *)
NoWrite == [status |-> 0, errType |-> "none"]

writeClaudeError(status, errType) == [status |-> status, errType |-> errType]

writeMappedClaudeError(upstreamStatus) ==
    CASE upstreamStatus = 400 -> [status |-> 400, errType |-> "invalid_request_error"]
      [] upstreamStatus = 401 -> [status |-> 502, errType |-> "authentication_error"]
      [] upstreamStatus = 403 -> [status |-> 502, errType |-> "permission_error"]
      [] upstreamStatus = 429 -> [status |-> 429, errType |-> "rate_limit_error"]
      [] upstreamStatus = 529 -> [status |-> 503, errType |-> "overloaded_error"]
      [] OTHER -> [status |-> 502, errType |-> "upstream_error"]

writeGoogleError(status) ==
    [status |-> status,
     errType |-> CASE status = 400 -> "INVALID_ARGUMENT"
                   [] status = 404 -> "NOT_FOUND"
                   [] status = 429 -> "RESOURCE_EXHAUSTED"
                   [] status = 500 -> "INTERNAL"
                   [] status \in {502, 503} -> "UNAVAILABLE"
                   [] OTHER -> "UNKNOWN"]

(* A successful body written to the client (c.Data / the event stream). *)
writeBody(status) == [status |-> status, errType |-> "body"]

(* c.JSON(http.StatusOK, {"totalTokens": estimated}) *)
writeEstimate == [status |-> 200, errType |-> "totalTokens"]

----------------------------------------------------------------------------
(* The values a call returns: a *ForwardResult or an error. *)

NoResult == [kind |-> "none", status |-> 0, model |-> <<>>, stream |-> FALSE]

ReturnError(kind) == [kind |-> kind, status |-> 0, model |-> <<>>, stream |-> FALSE]

UpstreamFailoverError(statusCode) ==
    [kind |-> "failover", status |-> statusCode, model |-> <<>>, stream |-> FALSE]

ForwardResult(model, stream) ==
    [kind |-> "ok", status |-> 0, model |-> model, stream |-> stream]

----------------------------------------------------------------------------
(* Model names and getMappedModel.  A model name is a sequence of tokens;
   the names of the tables are split after their "claude-" or "gemini-"
   prefix. *)

HasPrefix(s, prefix) ==
    Len(s) >= Len(prefix) /\ SubSeq(s, 1, Len(prefix)) = prefix

antigravitySupportedModels ==
    {<<"claude-", "opus-4-5-thinking">>, <<"claude-", "sonnet-4-5">>,
     <<"claude-", "sonnet-4-5-thinking">>, <<"gemini-", "2.5-flash">>,
     <<"gemini-", "2.5-flash-lite">>, <<"gemini-", "2.5-flash-thinking">>,
     <<"gemini-", "3-flash">>, <<"gemini-", "3-pro-low">>,
     <<"gemini-", "3-pro-high">>, <<"gemini-", "3-pro-preview">>,
     <<"gemini-", "3-pro-image">>}

antigravityModelMapping ==
    (<<"claude-", "3-5-sonnet-20241022">> :> <<"claude-", "sonnet-4-5">>) @@
    (<<"claude-", "3-5-sonnet-20240620">> :> <<"claude-", "sonnet-4-5">>) @@
    (<<"claude-", "sonnet-4-5-20250929">> :> <<"claude-", "sonnet-4-5-thinking">>) @@
    (<<"claude-", "opus-4">> :> <<"claude-", "opus-4-5-thinking">>) @@
    (<<"claude-", "opus-4-5-20251101">> :> <<"claude-", "opus-4-5-thinking">>) @@
    (<<"claude-", "haiku-4">> :> <<"gemini-", "3-flash">>) @@
    (<<"claude-", "haiku-4-5">> :> <<"gemini-", "3-flash">>) @@
    (<<"claude-", "3-haiku-20240307">> :> <<"gemini-", "3-flash">>) @@
    (<<"claude-", "haiku-4-5-20251001">> :> <<"gemini-", "3-flash">>)

(* A resolution that consults the system default map before the account. *)
getMappedModelSystemFirst(accountMapped, requestedModel) ==
    IF requestedModel \in DOMAIN antigravityModelMapping
    THEN antigravityModelMapping[requestedModel]
    ELSE IF accountMapped # requestedModel THEN accountMapped
    ELSE IF HasPrefix(requestedModel, <<"gemini-">>) THEN requestedModel
    ELSE IF requestedModel \in antigravitySupportedModels THEN requestedModel
    ELSE <<"claude-", "sonnet-4-5">>

(* accountMapped is what account.GetMappedModel(requestedModel) returned,
   the requested model itself when the account maps nothing. *)
getMappedModel(accountMapped, requestedModel) ==
    IF accountMapped # requestedModel THEN accountMapped
    ELSE IF requestedModel \in DOMAIN antigravityModelMapping
    THEN antigravityModelMapping[requestedModel]
    ELSE IF HasPrefix(requestedModel, <<"gemini-">>) THEN requestedModel
    ELSE IF requestedModel \in antigravitySupportedModels THEN requestedModel
    ELSE <<"claude-", "sonnet-4-5">>

(* A result that names the model the request was sent upstream with. *)
resultModelMapped(originalModel, mappedModel) == mappedModel

(* ForwardResult.Model: the model the caller asked for *)
resultModel(originalModel, mappedModel) == originalModel

----------------------------------------------------------------------------
(* Inputs of a call *)

ModelNames ==
    {<<>>, <<"SP">>, <<"TAB", "SP">>, <<"m">>, <<"SP", "m">>, <<"claude-", "sonnet-4-5">>}

ProjectIDs == {<<>>, <<"SP", "NL">>, <<"SP", "p">>}

TokenProviders == {"nil", "fail", "ok"}

Actions == {"", "generateContent", "streamGenerateContent", "countTokens", "embedContent"}

(* A body that is no JSON carries no model and no content. *)
ForwardInputs ==
    {r \in [op : {"Forward"}, jsonOK : BOOLEAN, bodyEmpty : {FALSE},
            model : ModelNames, action : {""}, stream : BOOLEAN,
            contentOK : BOOLEAN, tokenProvider : TokenProviders,
            project_id : ProjectIDs] :
        ~r.jsonOK => (r.model = <<>> /\ ~r.stream /\ ~r.contentOK)}

NoRequest ==
    [op |-> "none", jsonOK |-> FALSE, bodyEmpty |-> FALSE, model |-> <<>>,
     action |-> "", stream |-> FALSE, contentOK |-> FALSE,
     tokenProvider |-> "nil", project_id |-> <<>>]

----------------------------------------------------------------------------
(* Forward: validation and preconditions, up to the retry loop *)

ForwardPreludeNoPreconditions(r) ==
    IF ~r.jsonOK THEN "parse_error"
    ELSE IF TrimSpace(r.model) = <<>> THEN "missing_model"
    ELSE IF ~r.contentOK THEN "transform_error"
    ELSE "go"

ForwardPrelude(r) ==
    IF ~r.jsonOK THEN "parse_error"
    ELSE IF TrimSpace(r.model) = <<>> THEN "missing_model"
    ELSE IF r.tokenProvider = "nil" THEN "provider_missing"
    ELSE IF r.tokenProvider = "fail" THEN "token_error"
    ELSE IF TrimSpace(r.project_id) = <<>> THEN "project_error"
    ELSE IF ~r.contentOK THEN "transform_error"
    ELSE "go"

ForwardStart ==
    /\ pc = "idle"
    /\ \E r \in ForwardInputs :
        /\ req' = r
        /\ IF ForwardPrelude(r) = "go"
           THEN /\ pc' = "retry"
                /\ result' = result
           ELSE /\ pc' = "done"
                /\ result' = ReturnError(ForwardPrelude(r))
    /\ UNCHANGED <<attempt, upstreamLog, sleeps, notifyLog, client, handled>>
    /\ UNCHANGED nonFwdVars

----------------------------------------------------------------------------
(* The retry loop *)

Notified(a, statusCode, site) == [attempt |-> a, status |-> statusCode, site |-> site]

RetryAgainOneLess(a) == a < antigravityMaxRetries - 1

(* attempt < antigravityMaxRetries: sleep and take the next turn of the loop *)
RetryAgain(a) == a < antigravityMaxRetries

(* Forward reports a retryable status inside the loop only below the
   `attempt < antigravityMaxRetries` early continue. *)
ForwardLoopNotifies(a, statusCode) == ~RetryAgain(a) /\ statusCode = 429

(* ForwardGemini reports it before that check. *)
ForwardGeminiLoopNotifies(a, statusCode) == statusCode = 429

(* The outcome sends the loop into its next turn. *)
Retried(a, outcome) ==
    /\ \/ outcome = TransportError
       \/ outcome >= 400 /\ shouldRetryUpstreamError(outcome)
    /\ RetryAgain(a)

(* originalModel := claudeReq.Model; mappedModel := s.getMappedModel(account,
   claudeReq.Model), for an account that maps no model itself *)
originalModel == req.model

mappedModel == getMappedModel(req.model, req.model)

ForwardAttempt ==
    /\ pc = "retry"
    /\ req.op = "Forward"
    /\ attempt <= antigravityMaxRetries
    /\ \E outcome \in DoOutcomes(cancelled) :
        /\ upstreamLog' = Append(upstreamLog, outcome)
        /\ IF Retried(attempt, outcome)
           THEN /\ sleeps' = Append(sleeps, attempt)
                /\ attempt' = attempt + 1
                /\ UNCHANGED <<pc, notifyLog, client, result, handled>>
           ELSE IF outcome = TransportError
           THEN /\ pc' = "done"
                /\ client' = writeClaudeError(502, "upstream_error")
                /\ result' = ReturnError("upstream_unavailable")
                /\ UNCHANGED <<attempt, sleeps, notifyLog, handled>>
           ELSE IF outcome >= 400
           THEN /\ pc' = "done"
                /\ notifyLog' =
                     notifyLog
                     \o (IF shouldRetryUpstreamError(outcome)
                            /\ ForwardLoopNotifies(attempt, outcome)
                         THEN <<Notified(attempt, outcome, "loop")>> ELSE <<>>)
                     \o <<Notified(attempt, outcome, "after")>>
                /\ IF shouldFailoverUpstreamError(outcome)
                   THEN /\ result' = UpstreamFailoverError(outcome)
                        /\ client' = client
                   ELSE /\ result' = ReturnError("upstream_error")
                        /\ client' = writeMappedClaudeError(outcome)
                /\ UNCHANGED <<attempt, sleeps, handled>>
           ELSE /\ pc' = "done"
                /\ \E ok \in BOOLEAN :
                     IF ok
                     THEN /\ handled' = "ok"
                          /\ client' = writeBody(200)
                          /\ result' = ForwardResult(resultModel(originalModel, mappedModel), req.stream)
                     ELSE /\ handled' = "failed"
                          /\ client' = IF req.stream THEN writeBody(200)
                                       ELSE writeClaudeError(502, "upstream_error")
                          /\ result' = ReturnError("response_error")
                /\ UNCHANGED <<attempt, sleeps, notifyLog>>
    /\ UNCHANGED req
    /\ UNCHANGED nonFwdVars

(* The client goes away while Forward is in its retry loop. *)
ContextCancel ==
    /\ pc = "retry"
    /\ req.op = "Forward"
    /\ ~cancelled
    /\ cancelled' = TRUE
    /\ UNCHANGED fwdVars
    /\ UNCHANGED nonCtxVars

----------------------------------------------------------------------------
(* ForwardGemini *)

ForwardGeminiInputs ==
    {r \in [op : {"ForwardGemini"}, jsonOK : BOOLEAN, bodyEmpty : BOOLEAN,
            model : ModelNames, action : Actions, stream : BOOLEAN,
            contentOK : {TRUE}, tokenProvider : TokenProviders,
            project_id : ProjectIDs] :
        r.bodyEmpty => ~r.jsonOK}

ForwardGeminiPrelude(r) ==
    IF TrimSpace(r.model) = <<>> THEN "missing_model"
    ELSE IF r.action = "" THEN "missing_action"
    ELSE IF r.bodyEmpty THEN "empty_body"
    ELSE IF r.action \notin {"generateContent", "streamGenerateContent", "countTokens"}
    THEN "unsupported_action"
    ELSE IF r.tokenProvider = "nil" THEN "provider_missing"
    ELSE IF r.tokenProvider = "fail" THEN "token_error"
    ELSE IF TrimSpace(r.project_id) = <<>> THEN "project_error"
    ELSE IF ~r.jsonOK THEN "parse_error"
    ELSE "go"

ForwardGeminiStart ==
    /\ pc = "idle"
    /\ \E r \in ForwardGeminiInputs :
        /\ req' = r
        /\ LET p == ForwardGeminiPrelude(r) IN
           IF p = "go"
           THEN /\ pc' = "retry"
                /\ UNCHANGED <<result, client>>
           ELSE /\ pc' = "done"
                /\ result' = ReturnError(p)
                /\ client' =
                     IF p \in {"missing_model", "missing_action", "empty_body"}
                     THEN writeGoogleError(400)
                     ELSE IF p = "unsupported_action" THEN writeGoogleError(404)
                     ELSE client
    /\ UNCHANGED <<attempt, upstreamLog, sleeps, notifyLog, handled>>
    /\ UNCHANGED nonFwdVars

(* The streaming response path is taken. *)
GeminiStreams(r) ==
    r.stream \/ r.action = "streamGenerateContent"

(* countTokens degrades to a local estimate answered with 200. *)
EstimatedResult(r) == [kind |-> "ok", status |-> 0, model |-> r.model, stream |-> FALSE]

(* A countTokens failure handed on like that of any other action. *)
propagateCountTokens(r) ==
    [client |-> writeGoogleError(502), result |-> ReturnError("upstream_unavailable")]

(* What the three countTokens branches do with a failed request. *)
answerCountTokens(r) ==
    [client |-> writeEstimate, result |-> EstimatedResult(r)]

ForwardGeminiAttempt ==
    /\ pc = "retry"
    /\ req.op = "ForwardGemini"
    /\ attempt <= antigravityMaxRetries
    /\ \E outcome \in DoOutcomes(cancelled) :
        /\ upstreamLog' = Append(upstreamLog, outcome)
        /\ IF Retried(attempt, outcome)
           THEN /\ sleeps' = Append(sleeps, attempt)
                /\ attempt' = attempt + 1
                /\ notifyLog' =
                     IF outcome # TransportError
                        /\ ForwardGeminiLoopNotifies(attempt, outcome)
                     THEN Append(notifyLog, Notified(attempt, outcome, "loop"))
                     ELSE notifyLog
                /\ UNCHANGED <<pc, client, result, handled>>
           ELSE IF outcome = TransportError
           THEN /\ pc' = "done"
                /\ IF req.action = "countTokens"
                   THEN /\ client' = answerCountTokens(req).client
                        /\ result' = answerCountTokens(req).result
                   ELSE /\ client' = writeGoogleError(502)
                        /\ result' = ReturnError("upstream_unavailable")
                /\ UNCHANGED <<attempt, sleeps, notifyLog, handled>>
           ELSE IF outcome >= 400
           THEN /\ pc' = "done"
                /\ LET inLoop ==
                         IF shouldRetryUpstreamError(outcome)
                            /\ ForwardGeminiLoopNotifies(attempt, outcome)
                         THEN <<Notified(attempt, outcome, "loop")>> ELSE <<>>
                       exhausted == shouldRetryUpstreamError(outcome)
                   IN
                   IF req.action = "countTokens"
                   THEN /\ notifyLog' =
                             notifyLog \o inLoop
                             \o (IF exhausted THEN <<>>
                                 ELSE <<Notified(attempt, outcome, "after")>>)
                        /\ client' = answerCountTokens(req).client
                        /\ result' = answerCountTokens(req).result
                   ELSE /\ notifyLog' =
                             notifyLog \o inLoop
                             \o <<Notified(attempt, outcome, "after")>>
                        /\ IF shouldFailoverUpstreamError(outcome)
                           THEN /\ result' = UpstreamFailoverError(outcome)
                                /\ client' = client
                           ELSE /\ result' = ReturnError("upstream_error")
                                /\ client' = writeBody(outcome)
                /\ UNCHANGED <<attempt, sleeps, handled>>
           ELSE /\ pc' = "done"
                /\ \E ok \in BOOLEAN :
                     IF ok
                     THEN /\ handled' = "ok"
                          /\ client' = writeBody(outcome)
                          /\ result' = ForwardResult(resultModel(originalModel, mappedModel), req.stream)
                     ELSE /\ handled' = "failed"
                          /\ client' = IF GeminiStreams(req) THEN writeBody(outcome)
                                       ELSE NoWrite
                          /\ result' = ReturnError("response_error")
                /\ UNCHANGED <<attempt, sleeps, notifyLog>>
    /\ UNCHANGED req
    /\ UNCHANGED nonFwdVars

----------------------------------------------------------------------------
(* handleStreamingResponse: one upstream SSE line per step *)

MaxLines == 4

TokenCounts == {0, 5, 10, 12}

CacheCounts == {0, 3}

ZeroUsage ==
    [InputTokens |-> 0, OutputTokens |-> 0,
     CacheCreationInputTokens |-> 0, CacheReadInputTokens |-> 0]

(* "plain": a line without the "data: " prefix; "empty": "data: " alone;
   "other": a data line that is no message_start and no message_delta
   (another event type, or no JSON).  A usage field absent from the JSON
   decodes to 0. *)
Lines ==
    [type : {"plain", "empty", "done", "other"}, usage : {ZeroUsage}]
    \cup
    [type : {"message_start"},
     usage : [InputTokens : TokenCounts, OutputTokens : {0},
              CacheCreationInputTokens : CacheCounts,
              CacheReadInputTokens : CacheCounts]]
    \cup
    [type : {"message_delta"},
     usage : [InputTokens : TokenCounts, OutputTokens : TokenCounts,
              CacheCreationInputTokens : CacheCounts,
              CacheReadInputTokens : CacheCounts]]

parseClaudeSSEUsage(data, u) ==
    LET afterStart ==
            IF data.type = "message_start"
            THEN [u EXCEPT !.InputTokens = data.usage.InputTokens,
                           !.CacheCreationInputTokens = data.usage.CacheCreationInputTokens,
                           !.CacheReadInputTokens = data.usage.CacheReadInputTokens]
            ELSE u
    IN
    IF data.type = "message_delta"
    THEN [afterStart EXCEPT
              !.OutputTokens = data.usage.OutputTokens,
              !.InputTokens =
                  IF @ = 0 THEN data.usage.InputTokens ELSE @,
              !.CacheCreationInputTokens =
                  IF @ = 0 THEN data.usage.CacheCreationInputTokens ELSE @,
              !.CacheReadInputTokens =
                  IF @ = 0 THEN data.usage.CacheReadInputTokens ELSE @]
    ELSE afterStart

(* The line carries data to parse: "data: " followed by something other
   than the empty string and [DONE]. *)
CarriesData(line) == line.type \in {"other", "message_start", "message_delta"}

NoStart == [seen |-> FALSE, InputTokens |-> 0,
            CacheCreationInputTokens |-> 0, CacheReadInputTokens |-> 0]

(* What a handler returns: a stream result (or nil) and an error. *)
NoStreamResult == [returned |-> FALSE, hasResult |-> FALSE, usage |-> ZeroUsage, err |-> "none"]

StreamResult(u, e) == [returned |-> TRUE, hasResult |-> TRUE, usage |-> u, err |-> e]

NilResult(e) == [returned |-> TRUE, hasResult |-> FALSE, usage |-> ZeroUsage, err |-> e]

(* c.Writer is the buffered response writer of net/http: a write fails when
   the connection has failed, and once a write has failed every later
   write returns the same error. *)
ClientWrite(isBroken) == ~isBroken

(* A flush that is left out: the buffer keeps what it holds. *)
FlushNothing(buffered) == buffered

(* flusher.Flush(): everything buffered goes to the client. *)
Flush(buffered) == 0

StreamLine ==
    /\ handler = "handleStreamingResponse"
    /\ spc = "reading"
    /\ nLines < MaxLines
    /\ \E line \in Lines, breaks \in BOOLEAN :
        LET writeOK == ClientWrite(broken \/ breaks)
            u == IF CarriesData(line) THEN parseClaudeSSEUsage(line, usage) ELSE usage
        IN
        /\ nLines' = nLines + 1
        /\ usage' = u
        /\ firstStart' =
             IF line.type = "message_start" /\ ~firstStart.seen
             THEN [seen |-> TRUE, InputTokens |-> line.usage.InputTokens,
                   CacheCreationInputTokens |-> line.usage.CacheCreationInputTokens,
                   CacheReadInputTokens |-> line.usage.CacheReadInputTokens]
             ELSE firstStart
        /\ lastOut' =
             IF line.type = "message_delta" /\ line.usage.OutputTokens # 0
             THEN line.usage.OutputTokens
             ELSE lastOut
        /\ broken' = (broken \/ breaks)
        /\ IF writeOK
           THEN /\ written' = written + 1
                /\ unflushed' = Flush(unflushed + 1)
                /\ spc' = spc
                /\ streamRes' = streamRes
           ELSE /\ written' = written
                /\ unflushed' = unflushed
                /\ spc' = "write_error"
                /\ streamRes' = StreamResult(u, "write")
    /\ UNCHANGED <<handler, fwdRes>>
    /\ UNCHANGED nonStreamVars

(* reader.ReadString returns io.EOF with no further line *)
StreamEOF ==
    /\ handler = "handleStreamingResponse"
    /\ spc = "reading"
    /\ spc' = "finished"
    /\ streamRes' = StreamResult(usage, "none")
    /\ UNCHANGED <<usage, firstStart, lastOut, nLines, written>>
    /\ UNCHANGED <<handler, unflushed, broken, fwdRes>>
    /\ UNCHANGED nonStreamVars

(* reader.ReadString fails with another error: nil is returned, not the usage *)
StreamReadError ==
    /\ handler = "handleStreamingResponse"
    /\ spc = "reading"
    /\ spc' = "read_error"
    /\ streamRes' = NilResult("read")
    /\ UNCHANGED <<usage, firstStart, lastOut, nLines, written>>
    /\ UNCHANGED <<handler, unflushed, broken, fwdRes>>
    /\ UNCHANGED nonStreamVars

----------------------------------------------------------------------------
(* handleClaudeStreamingResponse: the upstream lines go through the
   StreamingProcessor, whose events are written to the client. *)

(* An upstream line, by what the processor makes of it: whether it yields
   Claude events, and the token counts its usage metadata carries (0 when
   absent). *)
ProcessorLines ==
    [events : BOOLEAN, InputTokens : {0, 5}, OutputTokens : {0, 10, 12}]

(* StreamingProcessor.ProcessLine: the events for the line, and the
   processor's usage, where a count is overwritten only by a non-zero one. *)
ProcessLine(line, u) ==
    [events |-> line.events,
     usage |-> [u EXCEPT
                  !.InputTokens = IF line.InputTokens # 0 THEN line.InputTokens ELSE @,
                  !.OutputTokens = IF line.OutputTokens # 0 THEN line.OutputTokens ELSE @]]

(* StreamingProcessor.Finish: the closing events, if any are still due,
   and the usage gathered. *)
Finish(u, due) == [events |-> due, usage |-> u]

(* convertUsage copies the four counts. *)
convertUsage(agUsage) ==
    [InputTokens |-> agUsage.InputTokens,
     OutputTokens |-> agUsage.OutputTokens,
     CacheCreationInputTokens |-> agUsage.CacheCreationInputTokens,
     CacheReadInputTokens |-> agUsage.CacheReadInputTokens]

ClaudeStreamLine ==
    /\ handler = "handleClaudeStreamingResponse"
    /\ spc = "reading"
    /\ nLines < MaxLines
    /\ \E line \in ProcessorLines, breaks \in BOOLEAN, due \in BOOLEAN :
        LET p == ProcessLine(line, usage)
            writeOK == ClientWrite(broken \/ breaks)
            fin == Finish(p.usage, due)
            \* after a failed write the connection has failed
            finalOK == fin.events /\ ClientWrite(TRUE)
        IN
        /\ nLines' = nLines + 1
        /\ usage' = p.usage
        /\ IF ~p.events
           THEN UNCHANGED <<written, unflushed, broken, spc, streamRes>>
           ELSE /\ broken' = (broken \/ breaks)
                /\ IF writeOK
                   THEN /\ written' = written + 1
                        /\ unflushed' = Flush(unflushed + 1)
                        /\ spc' = spc
                        /\ streamRes' = streamRes
                   ELSE /\ written' = written + (IF finalOK THEN 1 ELSE 0)
                        /\ unflushed' = unflushed + (IF finalOK THEN 1 ELSE 0)
                        /\ spc' = "write_error"
                        /\ streamRes' = StreamResult(convertUsage(fin.usage), "write")
    /\ UNCHANGED <<firstStart, lastOut, handler, fwdRes>>
    /\ UNCHANGED nonStreamVars

(* io.EOF: the closing events are written (errors ignored) and flushed *)
ClaudeStreamEOF ==
    /\ handler = "handleClaudeStreamingResponse"
    /\ spc = "reading"
    /\ \E due \in BOOLEAN, breaks \in BOOLEAN :
        LET fin == Finish(usage, due)
            writeOK == ClientWrite(broken \/ breaks)
        IN
        /\ IF fin.events
           THEN /\ broken' = (broken \/ breaks)
                /\ written' = written + (IF writeOK THEN 1 ELSE 0)
                /\ unflushed' = Flush(unflushed + (IF writeOK THEN 1 ELSE 0))
           ELSE UNCHANGED <<broken, written, unflushed>>
        /\ streamRes' = StreamResult(convertUsage(fin.usage), "none")
    /\ spc' = "finished"
    /\ UNCHANGED <<usage, firstStart, lastOut, nLines, handler, fwdRes>>
    /\ UNCHANGED nonStreamVars

ClaudeStreamReadError ==
    /\ handler = "handleClaudeStreamingResponse"
    /\ spc = "reading"
    /\ spc' = "read_error"
    /\ streamRes' = NilResult("read")
    /\ UNCHANGED <<usage, firstStart, lastOut, nLines, written>>
    /\ UNCHANGED <<handler, unflushed, broken, fwdRes>>
    /\ UNCHANGED nonStreamVars

----------------------------------------------------------------------------
(* handleGeminiStreamingResponse: every line is written on, write errors
   are ignored. *)

(* "plain": no "data:" prefix; "empty": "data:" with an empty payload or
   [DONE]; "data": a payload, whose usage extractGeminiUsage finds or not. *)
GeminiLines ==
    [type : {"plain", "empty"}, found : {FALSE}, usage : {ZeroUsage}]
    \cup
    [type : {"data"}, found : BOOLEAN,
     usage : [InputTokens : {0, 5}, OutputTokens : {0, 10, 12},
              CacheCreationInputTokens : {0}, CacheReadInputTokens : CacheCounts]]

GeminiStreamLine ==
    /\ handler = "handleGeminiStreamingResponse"
    /\ spc = "reading"
    /\ nLines < MaxLines
    /\ \E line \in GeminiLines, breaks \in BOOLEAN :
        LET writeOK == ClientWrite(broken \/ breaks) IN
        /\ nLines' = nLines + 1
        /\ usage' = IF line.type = "data" /\ line.found THEN line.usage ELSE usage
        /\ broken' = (broken \/ breaks)
        /\ written' = written + (IF writeOK THEN 1 ELSE 0)
        /\ unflushed' = Flush(unflushed + (IF writeOK THEN 1 ELSE 0))
    /\ UNCHANGED <<spc, firstStart, lastOut, handler, streamRes, fwdRes>>
    /\ UNCHANGED nonStreamVars

GeminiStreamEOF ==
    /\ handler = "handleGeminiStreamingResponse"
    /\ spc = "reading"
    /\ spc' = "finished"
    /\ streamRes' = StreamResult(usage, "none")
    /\ UNCHANGED <<usage, firstStart, lastOut, nLines, written>>
    /\ UNCHANGED <<handler, unflushed, broken, fwdRes>>
    /\ UNCHANGED nonStreamVars

GeminiStreamReadError ==
    /\ handler = "handleGeminiStreamingResponse"
    /\ spc = "reading"
    /\ spc' = "read_error"
    /\ streamRes' = NilResult("read")
    /\ UNCHANGED <<usage, firstStart, lastOut, nLines, written>>
    /\ UNCHANGED <<handler, unflushed, broken, fwdRes>>
    /\ UNCHANGED nonStreamVars

----------------------------------------------------------------------------
(* What Forward and ForwardGemini do with the handler's return: an error
   is returned with a nil result, otherwise the result carries the usage. *)

StreamHandlers ==
    {"handleStreamingResponse", "handleClaudeStreamingResponse",
     "handleGeminiStreamingResponse"}

ForwardTail(res) ==
    IF res.err # "none" THEN NilResult(res.err)
    ELSE StreamResult(res.usage, "none")

ForwardReturn ==
    /\ handler \in {"handleClaudeStreamingResponse", "handleGeminiStreamingResponse"}
    /\ spc \in {"finished", "write_error", "read_error"}
    /\ ~fwdRes.returned
    /\ fwdRes' = ForwardTail(streamRes)
    /\ UNCHANGED <<handler, unflushed, broken, streamRes>>
    /\ UNCHANGED strVars
    /\ UNCHANGED nonStreamVars

----------------------------------------------------------------------------
(* TransformClaudeToGeminiWithOptions: buildContents walks the messages,
   buildParts walks the content blocks of one message. *)

MaxMessages == 2

MaxBlocks == 2

dummyThoughtSignature == "skip_thought_signature_validator"

(* Resolved backend models: one with the "gemini-" prefix, one without. *)
MappedModels == {<<"gemini-", "3-flash">>, <<"claude-", "sonnet-4-5">>}

Signatures == {"", "sig", dummyThoughtSignature}

(* A content block (ContentBlock); a field the JSON leaves out is empty. *)
(* The content of a tool_result as the JSON gives it: left out, null, a
   string, an array of items that may carry a text, or another value kept
   as raw JSON. *)
NoContent == [kind |-> "absent", str |-> <<>>, items |-> <<>>]

ContentItems ==
    {[hasText |-> FALSE, text |-> <<>>], [hasText |-> TRUE, text |-> <<>>],
     [hasText |-> TRUE, text |-> <<"SP">>], [hasText |-> TRUE, text |-> <<"out">>]}

ToolResultContents ==
    {NoContent, [kind |-> "null", str |-> <<>>, items |-> <<>>]}
    \cup [kind : {"string"}, str : {<<>>, <<"SP", "NL">>, <<"ok">>, <<"SP", "ok">>},
          items : {<<>>}]
    \cup [kind : {"array"}, str : {<<>>},
          items : {<<>>} \cup {<<a>> : a \in ContentItems}
                  \cup {<<a, b>> : a \in ContentItems, b \in ContentItems}]
    \cup [kind : {"raw"}, str : {<<"{}">>, <<"42">>}, items : {<<>>}]

NoBlock ==
    [type |-> "none", text |-> <<>>, thinking |-> <<>>, signature |-> "", source |-> "",
     name |-> "", tool_use_id |-> "", content |-> NoContent, is_error |-> FALSE]

(* The fields of a block that is no tool_result. *)
NoToolResult ==
    [name : {""}, tool_use_id : {""}, content : {NoContent}, is_error : {FALSE}]

Extend(blocks, more) ==
    {[f \in DOMAIN b \cup DOMAIN m |-> IF f \in DOMAIN b THEN b[f] ELSE m[f]] :
        b \in blocks, m \in more}

ToolResultBase ==
    [type : {"tool_result"}, text : {<<>>}, thinking : {<<>>},
     signature : {""}, source : {""}]

(* tool_result blocks: named or not, with a tool_use_id that toolIDToName
   knows ("call_1") or does not know ("call_9"), any content, either flag *)
ToolResultBlocks ==
    Extend(ToolResultBase,
           [name : {"", "f"}, tool_use_id : {"call_1", "call_9"},
            content : ToolResultContents, is_error : BOOLEAN])

ToolNames == ("call_1" :> "run")

ContentBlocks ==
    Extend(
    [type : {"text"}, text : {<<"SP">>, <<"h">>, <<"(no content)">>},
     thinking : {<<>>}, signature : {""}, source : {""}]
    \cup
    [type : {"thinking"}, text : {<<>>}, thinking : {<<"SP">>, <<"t">>},
     signature : Signatures, source : {""}]
    \cup
    [type : {"tool_use"}, text : {<<>>}, thinking : {<<>>},
     signature : Signatures, source : {""}]
    \cup
    [type : {"image"}, text : {<<>>}, thinking : {<<>>},
     signature : {""}, source : {"base64", "url"}]
    \cup
    [type : {"other"}, text : {<<>>}, thinking : {<<>>},
     signature : {""}, source : {""}],
    NoToolResult)
    \cup
    Extend(ToolResultBase,
           [name : {""}, tool_use_id : {"call_9"}, content : {NoContent},
            is_error : BOOLEAN])

(* Message content given as one JSON string. *)
StringContents == {<<"SP">>, <<"SP", "h">>, <<"(no content)">>}

(* A part of a content entry (GeminiPart). *)
NoFunctionResponse == [set |-> FALSE, name |-> "", result |-> <<>>, id |-> ""]

EmptyPart ==
    [text |-> <<>>, thought |-> FALSE, thoughtSignature |-> "",
     functionCall |-> FALSE, inlineData |-> FALSE,
     functionResponse |-> NoFunctionResponse]

TextPart(t) == [EmptyPart EXCEPT !.text = t]

ThoughtPart(t, sig) ==
    [EmptyPart EXCEPT !.text = t, !.thought = TRUE, !.thoughtSignature = sig]

FunctionCallPart(sig) ==
    [EmptyPart EXCEPT !.functionCall = TRUE, !.thoughtSignature = sig]

InlineDataPart == [EmptyPart EXCEPT !.inlineData = TRUE]

FunctionResponsePart(funcName, resultContent, id) ==
    [EmptyPart EXCEPT !.functionResponse =
        [set |-> TRUE, name |-> funcName, result |-> resultContent, id |-> id]]

DummyThoughtPart == ThoughtPart(<<"Thinking...">>, dummyThoughtSignature)

(* buildParts, content that is a string *)
stringParts(textContent) ==
    IF textContent # <<"(no content)">> /\ TrimSpace(textContent) # <<>>
    THEN <<TextPart(TrimSpace(textContent))>>
    ELSE <<>>

(* A tool_use that hands the block's signature on whatever it is. *)
toolUseSignatureAsSent(block, allowDummyThought) ==
    IF allowDummyThought THEN dummyThoughtSignature ELSE block.signature

(* buildParts, case "tool_use": the signature of the function-call part *)
toolUseSignature(block, allowDummyThought) ==
    IF allowDummyThought THEN dummyThoughtSignature
    ELSE IF block.signature # "" /\ block.signature # dummyThoughtSignature
    THEN block.signature
    ELSE ""

(* A thinking block that always becomes a thought part. *)
thinkingPartsAlwaysThought(block, allowDummyThought) ==
    [parts |-> <<ThoughtPart(block.thinking,
                             IF block.signature # "" THEN block.signature
                             ELSE dummyThoughtSignature)>>,
     stripped |-> FALSE]

(* buildParts, case "thinking" *)
thinkingParts(block, allowDummyThought) ==
    IF block.signature # ""
    THEN [parts |-> <<ThoughtPart(block.thinking, block.signature)>>, stripped |-> FALSE]
    ELSE IF ~allowDummyThought
    THEN [parts |-> IF TrimSpace(block.thinking) # <<>>
                    THEN <<TextPart(block.thinking)>> ELSE <<>>,
          stripped |-> TRUE]
    ELSE [parts |-> <<ThoughtPart(block.thinking, dummyThoughtSignature)>>,
          stripped |-> FALSE]

succeededSentinel == <<"Command executed successfully.">>

failedSentinel == <<"Tool execution failed with no output.">>

emptyResult(isError) == IF isError THEN failedSentinel ELSE succeededSentinel

(* strings.Join(texts, "\n") over the items that carry a text *)
RECURSIVE JoinTexts(_)
JoinTexts(items) ==
    IF items = <<>> THEN <<>>
    ELSE LET rest == Tail(items)
             restHasText == \E k \in 1..Len(rest) : rest[k].hasText
         IN IF ~items[1].hasText THEN JoinTexts(rest)
            ELSE IF restHasText THEN items[1].text \o <<"NL">> \o JoinTexts(rest)
            ELSE items[1].text

(* A parser that hands an empty content on as the empty string. *)
parseToolResultContentAsIs(content, isError) ==
    CASE content.kind \in {"absent", "null"} -> <<>>
      [] content.kind = "string" -> content.str
      [] content.kind = "array" -> JoinTexts(content.items)
      [] OTHER -> content.str

(* null decodes into a string without error and leaves it empty *)
parseToolResultContent(content, isError) ==
    CASE content.kind = "absent" -> emptyResult(isError)
      [] content.kind \in {"null", "string"} ->
           IF TrimSpace(content.str) = <<>> THEN emptyResult(isError)
           ELSE content.str
      [] content.kind = "array" ->
           IF TrimSpace(JoinTexts(content.items)) = <<>> THEN emptyResult(isError)
           ELSE JoinTexts(content.items)
      [] OTHER -> content.str

(* buildParts, case "tool_result": the function name *)
toolResultName(block, toolIDToName) ==
    IF block.name # "" THEN block.name
    ELSE IF block.tool_use_id \in DOMAIN toolIDToName
    THEN toolIDToName[block.tool_use_id]
    ELSE block.tool_use_id

(* buildParts, one turn of the loop over the blocks: the parts appended
   and whether thinking was downgraded. *)
blockParts(block, allowDummyThought, toolIDToName) ==
    CASE block.type = "text" ->
           [parts |-> IF block.text # <<"(no content)">> /\ TrimSpace(block.text) # <<>>
                      THEN <<TextPart(block.text)>> ELSE <<>>,
            stripped |-> FALSE]
      [] block.type = "thinking" -> thinkingParts(block, allowDummyThought)
      [] block.type = "image" ->
           [parts |-> IF block.source = "base64" THEN <<InlineDataPart>> ELSE <<>>,
            stripped |-> FALSE]
      [] block.type = "tool_use" ->
           [parts |-> <<FunctionCallPart(toolUseSignature(block, allowDummyThought))>>,
            stripped |-> FALSE]
      [] block.type = "tool_result" ->
           [parts |-> <<FunctionResponsePart(
                           toolResultName(block, toolIDToName),
                           parseToolResultContent(block.content, block.is_error),
                           block.tool_use_id)>>,
            stripped |-> FALSE]
      [] OTHER -> [parts |-> <<>>, stripped |-> FALSE]

HasThoughtPart(ps) == \E k \in 1..Len(ps) : ps[k].thought

(* The synthetic part put before the parts of every eligible message. *)
withDummyThoughtAnywhere(ps, allowDummyThought, role, isThinkingEnabled, i, n) ==
    IF allowDummyThought /\ role = "model" /\ isThinkingEnabled
       /\ ~HasThoughtPart(ps) /\ Len(ps) > 0
    THEN <<DummyThoughtPart>> \o ps
    ELSE ps

(* No synthetic part at all. *)
withDummyThoughtNever(ps, allowDummyThought, role, isThinkingEnabled, i, n) == ps

(* buildContents: the synthetic part before the parts of message i of n *)
withDummyThought(ps, allowDummyThought, role, isThinkingEnabled, i, n) ==
    IF allowDummyThought /\ role = "model" /\ isThinkingEnabled /\ i = n
       /\ ~HasThoughtPart(ps) /\ Len(ps) > 0
    THEN <<DummyThoughtPart>> \o ps
    ELSE ps

(* A thinking config that follows the caller's setting alone. *)
hasThinkingConfigAsAsked(isThinkingEnabled, stripped) == isThinkingEnabled

(* buildGenerationConfig on the request with Thinking cleared when
   thinking was downgraded: whether ThinkingConfig is set. *)
hasThinkingConfig(isThinkingEnabled, stripped) == isThinkingEnabled /\ ~stripped

TransformInputs ==
    [isThinkingEnabled : BOOLEAN, mappedModel : MappedModels, n : 1..MaxMessages]

allowDummyThought == HasPrefix(xreq.mappedModel, <<"gemini-">>)

(* buildContents takes up the next message; content that is a string is
   turned into parts at once. *)
BeginMessage ==
    /\ xpc \in {"start", "emitted"}
    /\ xi < xreq.n
    /\ xi' = xi + 1
    /\ \E role \in {"user", "assistant"} :
         xrole' = IF role = "assistant" THEN "model" ELSE role
    /\ xblk' = NoBlock
    /\ xblocks' = 0
    /\ \/ /\ xpc' = "blocks"
          /\ parts' = <<>>
          /\ xadded' = 0
       \/ \E textContent \in StringContents :
            /\ xpc' = "built"
            /\ parts' = stringParts(textContent)
            /\ xadded' = Len(parts')
    /\ UNCHANGED <<xreq, nBuilt, strippedThinking, nContents, thinkingConfig>>
    /\ UNCHANGED nonXfVars

(* buildParts handles one content block *)
AddBlock ==
    /\ xpc = "blocks"
    /\ xblocks < MaxBlocks
    /\ \E block \in ContentBlocks :
        LET r == blockParts(block, allowDummyThought, <<>>) IN
        /\ xblk' = block
        /\ parts' = parts \o r.parts
        /\ xadded' = Len(r.parts)
        /\ strippedThinking' = (strippedThinking \/ r.stripped)
    /\ xblocks' = xblocks + 1
    /\ UNCHANGED <<xpc, xreq, xi, xrole, nBuilt, nContents, thinkingConfig>>
    /\ UNCHANGED nonXfVars

(* buildParts has returned: the synthetic part is put first where due, and
   the message is appended to contents unless it has no parts *)
EndMessage ==
    /\ xpc \in {"blocks", "built"}
    /\ nBuilt' = Len(parts)
    /\ parts' = withDummyThought(parts, allowDummyThought, xrole,
                                 xreq.isThinkingEnabled, xi, xreq.n)
    /\ nContents' = IF Len(parts') = 0 THEN nContents ELSE nContents + 1
    /\ xpc' = "emitted"
    /\ UNCHANGED <<xreq, xi, xrole, xblk, xadded, xblocks, strippedThinking, thinkingConfig>>
    /\ UNCHANGED nonXfVars

(* after the last message: buildGenerationConfig *)
TransformFinish ==
    /\ xpc = "emitted"
    /\ xi = xreq.n
    /\ thinkingConfig' = hasThinkingConfig(xreq.isThinkingEnabled, strippedThinking)
    /\ xpc' = "done"
    /\ UNCHANGED <<xreq, xi, xrole, xblk, xadded, xblocks, parts, nBuilt,
                   strippedThinking, nContents>>
    /\ UNCHANGED nonXfVars

(* buildParts on a content list that is one tool_result block, with the
   toolIDToName the earlier messages have left *)
BuildToolResult ==
    /\ tpc = "input"
    /\ tParts' = blockParts(tBlock, tGemini, ToolNames).parts
    /\ tpc' = "built"
    /\ UNCHANGED <<tBlock, tGemini>>
    /\ UNCHANGED nonTrVars

----------------------------------------------------------------------------
(* cleanJSONSchema.  A JSON value is a string, a boolean, an array or an
   object, told apart by the one field it has. *)

Str(s) == [str |-> s]
Bool(b) == [bool |-> b]
List(l) == [list |-> l]
Map(m) == [map |-> m]

IsStr(v) == DOMAIN v = {"str"}
IsBool(v) == DOMAIN v = {"bool"}
IsList(v) == DOMAIN v = {"list"}
IsMap(v) == DOMAIN v = {"map"}

(* a nil map[string]any *)
Nil == [nil |-> TRUE]

schemaValidationKeys ==
    {"minLength", "maxLength", "pattern", "minimum", "maximum",
     "exclusiveMinimum", "exclusiveMaximum", "multipleOf", "uniqueItems",
     "minItems", "maxItems", "minProperties", "maxProperties",
     "patternProperties", "propertyNames", "dependencies",
     "dependentSchemas", "dependentRequired"}

excludedSchemaKeys ==
    {"$schema", "$id", "$ref",
     "minLength", "maxLength", "pattern",
     "minimum", "maximum", "exclusiveMinimum", "exclusiveMaximum", "multipleOf",
     "uniqueItems", "minItems", "maxItems",
     "oneOf", "anyOf", "allOf", "not", "if", "then", "else", "$defs", "definitions",
     "minProperties", "maxProperties", "patternProperties", "propertyNames",
     "dependencies", "dependentSchemas", "dependentRequired",
     "default", "const", "examples", "deprecated", "readOnly", "writeOnly",
     "contentMediaType", "contentEncoding",
     "strict"}

(* strings.ToUpper on the type names that occur *)
ToUpper(s) ==
    CASE s = "string" -> "STRING"
      [] s = "String" -> "STRING"
      [] s = "integer" -> "INTEGER"
      [] s = "object" -> "OBJECT"
      [] s = "null" -> "NULL"
      [] OTHER -> s

(* A type handler that takes the first member of a union as it stands. *)
cleanTypeValueFirstMember(value) ==
    IF IsStr(value) THEN Str(ToUpper(value.str))
    ELSE IF IsList(value) /\ Len(value.list) > 0 THEN value.list[1]
    ELSE value

cleanTypeValue(value) ==
    IF IsStr(value) THEN Str(ToUpper(value.str))
    ELSE IF IsList(value)
    THEN LET named == {i \in 1..Len(value.list) :
                         IsStr(value.list[i]) /\ value.list[i].str # "null"}
         IN IF named # {}
            THEN Str(ToUpper(value.list[CHOOSE i \in named : \A j \in named : i <= j].str))
            ELSE Str("STRING")
    ELSE value

RECURSIVE cleanSchemaValue(_)
cleanSchemaValue(value) ==
    IF IsMap(value)
    THEN LET v == value.map
             kept == {k \in DOMAIN v :
                        /\ k \notin excludedSchemaKeys
                        /\ k = "format" =>
                             /\ IsStr(v[k])
                             /\ v[k].str \in {"date-time", "date", "time"}}
         IN Map([k \in kept |->
                   IF k = "type" THEN cleanTypeValue(v[k])
                   ELSE IF k = "format" THEN v[k]
                   ELSE IF k = "additionalProperties"
                   THEN (IF IsBool(v[k]) THEN v[k] ELSE Bool(FALSE))
                   ELSE cleanSchemaValue(v[k])])
    ELSE IF IsList(value)
    THEN List([i \in 1..Len(value.list) |-> cleanSchemaValue(value.list[i])])
    ELSE value

(* cleanJSONSchema, the check of required against properties *)
validRequired(res) ==
    IF /\ "required" \in DOMAIN res
       /\ IsList(res["required"])
       /\ IsMap(res["properties"])
    THEN LET props == res["properties"].map
             valid == SelectSeq(res["required"].list,
                                LAMBDA r : IsStr(r) /\ r.str \in DOMAIN props)
         IN IF Len(valid) > 0
            THEN [res EXCEPT !["required"] = List(valid)]
            ELSE [k \in DOMAIN res \ {"required"} |-> res[k]]
    ELSE res

cleanJSONSchema(s) ==
    IF s = Nil THEN Nil
    ELSE LET cleaned == cleanSchemaValue(s).map
             withType == IF "type" \in DOMAIN cleaned THEN cleaned
                         ELSE cleaned @@ ("type" :> Str("OBJECT"))
             withProps == IF "properties" \in DOMAIN withType THEN withType
                          ELSE withType @@ ("properties" :> Map(<<>>))
         IN Map(validRequired(withProps))

(* Input schemas.  A schema is given by the value of each of its keys,
   Absent standing for a key the schema does not have. *)
Absent == [absent |-> TRUE]

MakeMap(c) == Map([k \in {x \in DOMAIN c : c[x] # Absent} |-> c[k]])

RequiredValues ==
    {Absent, List(<<>>), List(<<Str("a")>>), List(<<Str("zz")>>),
     List(<<Str("a"), Str("zz")>>), List(<<Str("pattern"), Bool(TRUE)>>), Str("a")}

LeafSchemas ==
    {MakeMap(c) : c \in
        [type : {Absent, Str("string"), List(<<Str("null"), Str("integer")>>)},
         minLength : {Absent, Str("1")}]}

NestedSchemas ==
    {MakeMap(c) : c \in
        [type : {Str("object")},
         properties : {Absent, Map(<<>>), Map("a" :> Map("type" :> Str("string")))},
         required : {Absent, List(<<Str("a")>>), List(<<Str("zz")>>)}]}

PropertyMaps ==
    {MakeMap(c) : c \in
        [a : {Absent} \cup LeafSchemas \cup NestedSchemas,
         pattern : {Absent, Map("type" :> Str("String"))}]}

Schemas ==
    {Nil} \cup
    {MakeMap(c) : c \in
        [type : {Absent, Str("object"), List(<<Str("null")>>), Bool(TRUE)},
         properties : {Absent, Str("none")} \cup PropertyMaps,
         required : RequiredValues,
         format : {Absent, Str("date"), Str("uri")},
         additionalProperties : {Absent, Bool(TRUE), Map("type" :> Str("string"))},
         maxProperties : {Absent, Str("9")}]}

(* buildTools cleans the input schema of a tool *)
CleanSchema ==
    /\ scpc = "input"
    /\ cleanedOnce' = cleanJSONSchema(schema)
    /\ scpc' = "cleaned"
    /\ UNCHANGED <<schema, cleanedTwice>>
    /\ UNCHANGED nonSchVars

(* the cleaned schema is cleaned once more *)
CleanAgain ==
    /\ scpc = "cleaned"
    /\ cleanedTwice' = cleanJSONSchema(cleanedOnce)
    /\ scpc' = "recleaned"
    /\ UNCHANGED <<schema, cleanedOnce>>
    /\ UNCHANGED nonSchVars

----------------------------------------------------------------------------
(* warnSchemaKeyRemovedOnce, called by concurrent requests whose schemas
   are being cleaned. *)

NumWorkers == 3

MaxStrips == 2

Workers == 1..NumWorkers

(* Keys cleanSchemaValue strips: two validation keys and one excluded key
   that is no validation key. *)
StrippedKeys == {"pattern", "minLength", "default"}

(* A load that stores nothing. *)
LoadOnly(set, key) == [loaded |-> key \in set, set |-> set]

(* sync.Map.LoadOrStore, one atomic step *)
LoadOrStore(set, key) == [loaded |-> key \in set, set |-> set \cup {key}]

(* cleanSchemaValue meets an excluded key and calls
   warnSchemaKeyRemovedOnce, which runs up to LoadOrStore *)
StripKey(w) ==
    /\ wpc[w] = "idle"
    /\ wcalls[w] < MaxStrips
    /\ \E key \in StrippedKeys \cap excludedSchemaKeys, enabled \in BOOLEAN :
        /\ wkey' = [wkey EXCEPT ![w] = key]
        /\ wcalls' = [wcalls EXCEPT ![w] = @ + 1]
        /\ IF ~enabled \/ key \notin schemaValidationKeys
           THEN UNCHANGED <<warnedSchemaKeys, wpc>>
           ELSE LET r == LoadOrStore(warnedSchemaKeys, key) IN
                /\ warnedSchemaKeys' = r.set
                /\ wpc' = IF r.loaded THEN wpc ELSE [wpc EXCEPT ![w] = "log"]
    /\ UNCHANGED diagnostics
    /\ UNCHANGED nonWarnVars

(* log.Printf of the removal *)
LogRemoval(w) ==
    /\ wpc[w] = "log"
    /\ diagnostics' = [diagnostics EXCEPT ![wkey[w]] = @ + 1]
    /\ wpc' = [wpc EXCEPT ![w] = "idle"]
    /\ UNCHANGED <<warnedSchemaKeys, wkey, wcalls>>
    /\ UNCHANGED nonWarnVars

----------------------------------------------------------------------------
(* Model resolution on its own *)

(* Requested models: names of the system default map, supported and
   unsupported gemini- names, directly supported claude names, unknown names
   and the empty name. *)
RequestedModels ==
    {<<"claude-", "opus-4">>, <<"claude-", "haiku-4-5">>,
     <<"gemini-", "3-flash">>, <<"gemini-", "9-exp">>,
     <<"claude-", "opus-4-5-thinking">>, <<"claude-", "sonnet-4-5">>,
     <<"claude-", "3-haiku-20240307">>, <<"claude-", "sonnet-4-5-thinking">>,
     <<"gemini-", "2.5-flash">>, <<"claude-", "2">>,
     <<"gpt-", "4o">>, <<>>}

(* What the account's override lookup may hand back for a requested model:
   the requested model itself (no override), or a name the account maps to. *)
AccountTargets ==
    {<<"gemini-", "2.5-flash">>, <<"claude-", "opus-4">>, <<"gpt-", "4o">>,
     <<"my-", "model">>}

AccountResults(requestedModel) == {requestedModel} \cup AccountTargets

ResolveModel ==
    /\ rpc = "input"
    /\ rResolved' = getMappedModel(rAccount, rRequested)
    /\ rpc' = "resolved"
    /\ UNCHANGED <<rAccount, rRequested>>
    /\ UNCHANGED nonResVars

(* The next request arrives with another model and another account. *)
ResolveReset ==
    /\ rpc = "resolved"
    /\ \E m \in RequestedModels : \E a \in AccountResults(m) :
          /\ rRequested' = m
          /\ rAccount' = a
    /\ rResolved' = <<>>
    /\ rpc' = "input"
    /\ UNCHANGED nonResVars

----------------------------------------------------------------------------
(* buildGenerationConfig: the thinking budget *)

ThinkingBudgetCap == 24576

(* strings.Contains(model, "gemini-2.5-flash") on a tokenised name: the
   gemini- token followed by a token that starts with 2.5-flash. *)
ContainsGemini25Flash(model) ==
    \E i \in 1..(Len(model) - 1) :
        /\ model[i] = "gemini-"
        /\ model[i + 1] \in {"2.5-flash", "2.5-flash-lite", "2.5-flash-thinking"}

NoThinkingConfig == [thinkingConfig |-> FALSE, thinkingBudget |-> 0]

(* thinkingBudget 0 stands for the field left unset. *)
buildGenerationConfig(request) ==
    IF request.thinking = "enabled"
    THEN [thinkingConfig |-> TRUE,
          thinkingBudget |->
              IF request.budget > 0
              THEN IF ContainsGemini25Flash(request.model)
                      /\ request.budget > ThinkingBudgetCap
                   THEN ThinkingBudgetCap
                   ELSE request.budget
              ELSE 0]
    ELSE NoThinkingConfig

(* The request handed to buildGenerationConfig: Thinking cleared when the
   thinking blocks were downgraded. *)
reqForConfig(request, stripped) ==
    IF stripped THEN [request EXCEPT !.thinking = "nil"] ELSE request

CallerModels ==
    {<<"gemini-", "2.5-flash">>, <<"gemini-", "2.5-flash-lite">>,
     <<"gemini-", "3-flash">>, <<"claude-", "haiku-4-5">>, <<"my-", "model">>}

Budgets == {0, 1024, ThinkingBudgetCap, ThinkingBudgetCap + 1, 32000}

ConfigRequests ==
    [model : CallerModels,
     account : {<<>>, <<"gemini-", "2.5-flash">>, <<"gemini-", "3-flash">>},
     thinking : {"nil", "enabled", "disabled"},
     budget : Budgets,
     stripped : BOOLEAN]

(* account <<>> stands for an account without an override for the model. *)
accountMappedModel(request) ==
    IF request.account = <<>> THEN request.model ELSE request.account

ResolveForConfig ==
    /\ gpc = "input"
    /\ gMapped' = getMappedModel(accountMappedModel(gReq), gReq.model)
    /\ gpc' = "resolved"
    /\ UNCHANGED <<gReq, gConfig>>
    /\ UNCHANGED nonGenVars

BuildGenerationConfig ==
    /\ gpc = "resolved"
    /\ gConfig' = buildGenerationConfig(reqForConfig(gReq, gReq.stripped))
    /\ gpc' = "built"
    /\ UNCHANGED <<gReq, gMapped>>
    /\ UNCHANGED nonGenVars

----------------------------------------------------------------------------
(* Bootstrap secrets in table security_secrets.  A secret is a text of len
   bytes, with white space around it when pad is set; who tells the random
   texts of the callers apart. *)

NumCallers == 3

Callers == 1..NumCallers

securitySecretKeyJWT == "jwt_secret"

MinSecretBytes == 32

Secret(text, len) == [text |-> text, who |-> 0, len |-> len, pad |-> FALSE]

Padded(secret) == [secret EXCEPT !.pad = TRUE]

EmptySecret == Secret("", 0)

(* strings.TrimSpace on a secret *)
TrimSecret(secret) == [secret EXCEPT !.pad = FALSE]

(* len([]byte(value)) *)
ByteLen(secret) == secret.len + (IF secret.pad THEN 2 ELSE 0)

(* generateHexSecret: byteLength random bytes (32 when byteLength <= 0) in
   hex; the secrets two callers draw differ. *)
generateHexSecret(who, byteLength) ==
    [Secret("generated", 2 * (IF byteLength <= 0 THEN 32 ELSE byteLength))
        EXCEPT !.who = who]

Row(key, value) == [key |-> key, value |-> value]

RowsOf(table, key) == {i \in 1..Len(table) : table[i].key = key}

(* An insert that the unique index on key does not stop. *)
insertAnyway(table, key, value) == Append(table, Row(key, value))

(* INSERT ... ON CONFLICT (key) DO NOTHING *)
insertOnConflictDoNothing(table, key, value) ==
    IF RowsOf(table, key) = {} THEN Append(table, Row(key, value)) ELSE table

(* A create that overwrites the row of the key. *)
createOverwriting(table, key, value) ==
    IF RowsOf(table, key) = {}
    THEN [table |-> Append(table, Row(key, value)), constraintError |-> FALSE]
    ELSE [table |-> [i \in 1..Len(table) |->
                        IF table[i].key = key THEN Row(key, value) ELSE table[i]],
          constraintError |-> FALSE]

(* Create().Save(): the unique index on key refuses a second row *)
createRow(table, key, value) ==
    IF RowsOf(table, key) = {}
    THEN [table |-> Append(table, Row(key, value)), constraintError |-> FALSE]
    ELSE [table |-> table, constraintError |-> TRUE]

(* Query().Where(KeyEQ(key)).Only(ctx) *)
queryOnly(table, key) ==
    IF RowsOf(table, key) = {} THEN [err |-> "not_found", value |-> EmptySecret]
    ELSE IF Cardinality(RowsOf(table, key)) > 1
    THEN [err |-> "not_singular", value |-> EmptySecret]
    ELSE [err |-> "none", value |-> table[CHOOSE i \in RowsOf(table, key) : TRUE].value]

NoReturn == [returned |-> FALSE, value |-> EmptySecret, created |-> FALSE, err |-> "none"]

Returned(value, created) ==
    [returned |-> TRUE, value |-> value, created |-> created, err |-> "none"]

Failed(err) == [returned |-> TRUE, value |-> EmptySecret, created |-> FALSE, err |-> err]

(* getOrCreateGeneratedSecuritySecret has found a row at once. *)
existingSecret(existing) ==
    IF ByteLen(TrimSecret(existing)) < MinSecretBytes THEN Failed("too_short")
    ELSE Returned(TrimSecret(existing), FALSE)

(* What it makes of the row it reads after its insert. *)
storedSecret(stored, generated) ==
    IF ByteLen(TrimSecret(stored)) < MinSecretBytes THEN Failed("too_short")
    ELSE Returned(TrimSecret(stored), TrimSecret(stored) = generated)

ConfiguredSecrets ==
    {EmptySecret, Padded(EmptySecret), Secret("configured", 36),
     Padded(Secret("configured", 36)), Secret("weak", 5)}

StoredSecrets == {Secret("existing", 36), Padded(Secret("existing", 40)), Secret("old", 8)}

ByteLengths == {0, 32}

SecretCalls ==
    [name : {"getOrCreateGeneratedSecuritySecret"}, value : {EmptySecret},
     byteLength : ByteLengths]
    \cup
    [name : {"createSecuritySecretIfAbsent"},
     value : ConfiguredSecrets \ {EmptySecret, Padded(EmptySecret)}, byteLength : {0}]
    \cup
    [name : {"ensureBootstrapSecrets"}, value : ConfiguredSecrets, byteLength : {32}]

NoCall == [name |-> "none", value |-> EmptySecret, byteLength |-> 0]

(* The call runs getOrCreateGeneratedSecuritySecret. *)
Generates(call) ==
    \/ call.name = "getOrCreateGeneratedSecuritySecret"
    \/ call.name = "ensureBootstrapSecrets" /\ TrimSecret(call.value) = EmptySecret

(* What ensureBootstrapSecrets leaves in cfg.JWT.Secret when the lookup
   returned r. *)
cfgAfter(call, cfgSecret, r) ==
    IF call.name = "ensureBootstrapSecrets" /\ r.err = "none" THEN r.value
    ELSE cfgSecret

(* A caller starts; getOrCreateGeneratedSecuritySecret reads the row of the
   key, returns it when there is one, and generates a secret when there is
   none.  createSecuritySecretIfAbsent, alone or from ensureBootstrapSecrets
   with a configured secret, is one statement. *)
SecretCall(who) ==
    /\ secpc[who] = "idle"
    /\ \E call \in SecretCalls :
        /\ sop' = [sop EXCEPT ![who] = call]
        /\ IF Generates(call)
           THEN LET found == queryOnly(rows, securitySecretKeyJWT)
                    generated == generateHexSecret(who, call.byteLength)
                IN IF found.err = "none"
                   THEN /\ sret' = [sret EXCEPT ![who] = existingSecret(found.value)]
                        /\ scfg' = [scfg EXCEPT ![who] =
                                       cfgAfter(call, TrimSecret(call.value), sret'[who])]
                        /\ secpc' = [secpc EXCEPT ![who] = "done"]
                        /\ UNCHANGED <<rows, sgen>>
                   ELSE /\ sgen' = [sgen EXCEPT ![who] = generated]
                        /\ scfg' = [scfg EXCEPT ![who] = TrimSecret(call.value)]
                        /\ secpc' = [secpc EXCEPT ![who] = "insert"]
                        /\ UNCHANGED <<rows, sret>>
           ELSE LET value == TrimSecret(call.value) IN
                /\ scfg' = [scfg EXCEPT ![who] = value]
                /\ secpc' = [secpc EXCEPT ![who] = "done"]
                /\ sgen' = sgen
                /\ IF ByteLen(value) < MinSecretBytes
                   THEN /\ sret' = [sret EXCEPT ![who] = Failed("too_short")]
                        /\ rows' = rows
                   ELSE /\ rows' = createRow(rows, securitySecretKeyJWT, value).table
                        /\ sret' = [sret EXCEPT ![who] = Returned(EmptySecret, FALSE)]
    /\ UNCHANGED rows0
    /\ UNCHANGED nonSecVars

(* Create()...OnConflictColumns(key).DoNothing().Exec(ctx) *)
SecretInsert(who) ==
    /\ secpc[who] = "insert"
    /\ rows' = insertOnConflictDoNothing(rows, securitySecretKeyJWT, sgen[who])
    /\ secpc' = [secpc EXCEPT ![who] = "reread"]
    /\ UNCHANGED <<rows0, sop, sgen, sret, scfg>>
    /\ UNCHANGED nonSecVars

(* the row is read again and returned; created tells whether it is the
   caller's own *)
SecretReread(who) ==
    /\ secpc[who] = "reread"
    /\ LET stored == queryOnly(rows, securitySecretKeyJWT) IN
        sret' = [sret EXCEPT ![who] =
                    IF stored.err # "none" THEN Failed(stored.err)
                    ELSE storedSecret(stored.value, sgen[who])]
    /\ scfg' = [scfg EXCEPT ![who] = cfgAfter(sop[who], scfg[who], sret'[who])]
    /\ secpc' = [secpc EXCEPT ![who] = "done"]
    /\ UNCHANGED <<rows, rows0, sop, sgen>>
    /\ UNCHANGED nonSecVars

----------------------------------------------------------------------------
(* RPMCacheImpl: the per-minute request counters in Redis.  A script runs
   as one step of the server. *)

MaxCalls == 4

ClockStep == 25

MaxTime == 200

SecondsPerMinute == 60

rpmExpireSeconds == 120

AccountIDs == {1, 2}

(* A key that names the hour instead of the minute. *)
minuteKeyOfHour(seconds) == seconds \div 3600

(* math.floor(tonumber(timeResult[1]) / 60) *)
minuteKey(seconds) == seconds \div SecondsPerMinute

(* ARGV[1] .. ':' .. minuteKey, with ARGV[1] = rpmKeyBase(accountID) *)
rpmKey(accountID, seconds) == <<"rpm:", accountID, minuteKey(seconds)>>

(* The keys Redis holds that have not expired. *)
LiveKeys(keys, seconds) == {k \in DOMAIN keys : seconds < keys[k].expireAt}

(* rpmIncrScript: INCR, and EXPIRE 120 on the first count; a key past its
   expiry is gone. *)
rpmIncr(keys, accountID, seconds) ==
    LET key == rpmKey(accountID, seconds)
        live == LiveKeys(keys, seconds)
        count == IF key \in live THEN keys[key].count + 1 ELSE 1
        expireAt == IF count = 1 THEN seconds + rpmExpireSeconds
                    ELSE keys[key].expireAt
        kept == [k \in live \ {key} |-> keys[k]]
    IN [keys |-> kept @@ (key :> [count |-> count, expireAt |-> expireAt]),
        count |-> count]

(* rpmGetScript: GET, 0 when there is no such key *)
rpmGet(keys, accountID, seconds) ==
    LET key == rpmKey(accountID, seconds) IN
    IF key \in LiveKeys(keys, seconds) THEN keys[key].count ELSE 0

Answered(op, accountID, seconds, count) ==
    [op |-> op, accountID |-> accountID, at |-> seconds, count |-> count]

IncrementRPM ==
    /\ Len(rpmLog) < MaxCalls
    /\ \E accountID \in AccountIDs :
        LET r == rpmIncr(redisKeys, accountID, redisTime) IN
        /\ redisKeys' = r.keys
        /\ rpmLog' = Append(rpmLog, Answered("IncrementRPM", accountID, redisTime, r.count))
    /\ UNCHANGED redisTime
    /\ UNCHANGED nonRpmVars

GetRPM ==
    /\ Len(rpmLog) < MaxCalls
    /\ \E accountID \in AccountIDs :
        rpmLog' = Append(rpmLog, Answered("GetRPM", accountID, redisTime,
                                          rpmGet(redisKeys, accountID, redisTime)))
    /\ UNCHANGED <<redisTime, redisKeys>>
    /\ UNCHANGED nonRpmVars

(* The server's clock moves on. *)
RedisTick ==
    /\ redisTime + ClockStep <= MaxTime
    /\ redisTime' = redisTime + ClockStep
    /\ UNCHANGED <<redisKeys, rpmLog>>
    /\ UNCHANGED nonRpmVars

----------------------------------------------------------------------------
(* TokenRefreshService: refreshWithRetry and the counting of processRefresh *)

MaxRetriesBound == 3
PlatformAntigravity == "antigravity"
Platforms == {PlatformAntigravity, "anthropic"}

(* An error is its message, a sequence of words; nil is the empty one. *)
NilError == <<>>
RefreshErrors ==
    {NilError, <<"network", "timeout">>, <<"oauth", "invalid_grant">>,
     <<"token", "Access_Denied">>, <<"missing_project_id">>}
SaveErrors == {NilError, <<"update", "failed">>}

(* strings.ToLower, on the words of the messages *)
toLower(word) ==
    CASE word = "Access_Denied" -> "access_denied"
      [] OTHER -> word

neverNonRetryable(err) == FALSE

(* isNonRetryableRefreshError: the lower-cased message contains one of the
   five needles *)
isNonRetryableRefreshError(err) ==
    /\ err # NilError
    /\ \E i \in 1..Len(err) :
        toLower(err[i]) \in {"invalid_grant", "invalid_client", "unauthorized_client",
                             "access_denied", "missing_project_id"}

NilCredentials == [token |-> "nil", version |-> 0]
OldCredentials == [token |-> "old", version |-> 0]
NewCredentials(n) == [token |-> "new", version |-> n]

Called(op, n, seconds, credentials, err) ==
    [op |-> op, attempt |-> n, seconds |-> seconds,
     credentials |-> credentials, err |-> err]

Call(op, n) == Called(op, n, 0, NilCredentials, NilError)

sleepAfterEveryAttempt(n, maxRetries) == TRUE

(* `if attempt < s.cfg.MaxRetries`: there is another attempt to wait for *)
hasRetryLeft(n, maxRetries) == n < maxRetries

(* backoff: RetryBackoffSeconds * 2^(attempt-1) *)
backoff(retryBackoffSeconds, n) == retryBackoffSeconds * 2 ^ (n - 1)

saveNeverFails(saveErr) == FALSE

(* `if saveErr := s.accountRepo.Update(ctx, account); saveErr != nil` *)
saveFailed(saveErr) == saveErr # NilError

(* processRefresh: failed++ on an error, refreshed++ otherwise *)
countRefresh(counts, err) ==
    IF err # NilError THEN [counts EXCEPT !.failed = @ + 1]
    ELSE [counts EXCEPT !.refreshed = @ + 1]

NoRefresh ==
    [MaxRetries |-> 0, RetryBackoffSeconds |-> 0, platform |-> "anthropic",
     missingProjectID |-> FALSE]

(* The configuration and the account processRefresh found due. *)
RefreshConfigs ==
    [MaxRetries : (0 - 1)..MaxRetriesBound, RetryBackoffSeconds : {2},
     platform : Platforms, missingProjectID : BOOLEAN]

InitRefreshWith(configs) ==
    /\ rfpc = "idle"
    /\ rfCfg \in configs
    /\ rfAttempt = 0
    /\ rfLastErr = NilError
    /\ rfLog = <<>>
    /\ rfAccount = OldCredentials
    /\ rfStored = OldCredentials
    /\ rfCached = OldCredentials
    /\ rfRet = NilError
    /\ rfCounts = [refreshed |-> 0, failed |-> 0]

(* refreshWithRetry returns err to processRefresh, which counts the account. *)
RefreshReturn(err) ==
    /\ rfpc' = "returned"
    /\ rfRet' = err
    /\ rfCounts' = countRefresh(rfCounts, err)

(* processRefresh calls refreshWithRetry for the account. *)
RefreshStart ==
    /\ rfpc = "idle"
    /\ rfCfg # NoRefresh
    /\ rfpc' = "loop"
    /\ rfAttempt' = 1
    /\ UNCHANGED <<rfCfg, rfLastErr, rfLog, rfAccount, rfStored, rfCached, rfRet, rfCounts>>
    /\ UNCHANGED nonRfVars

(* One pass of the retry loop. *)
RefreshAttempt ==
    /\ rfpc = "loop"
    /\ rfAttempt <= rfCfg.MaxRetries
    /\ \E newCredentials \in {NilCredentials, NewCredentials(rfAttempt)},
          err \in RefreshErrors, saveErr \in SaveErrors :
        LET refreshed == Append(rfLog, Called("Refresh", rfAttempt, 0, newCredentials, err))
            hasNew == newCredentials # NilCredentials
            saved == IF hasNew
                     THEN Append(refreshed, Called("Update", rfAttempt, 0, newCredentials, saveErr))
                     ELSE refreshed
            account == IF hasNew THEN newCredentials ELSE rfAccount
            stored == IF hasNew /\ saveErr = NilError THEN newCredentials ELSE rfStored
            cleared == IF /\ rfCfg.platform = PlatformAntigravity
                          /\ rfCfg.missingProjectID
                       THEN Append(saved, Call("ClearError", rfAttempt))
                       ELSE saved
        IN
        /\ hasNew \/ saveErr = NilError
        /\ rfAccount' = account
        /\ rfStored' = stored
        /\ IF hasNew /\ saveFailed(saveErr)
           THEN /\ rfLog' = saved
                /\ RefreshReturn(<<"failed to save credentials">> \o saveErr)
                /\ UNCHANGED <<rfAttempt, rfLastErr, rfCached>>
           ELSE IF err = NilError
           THEN /\ rfLog' = cleared \o <<Call("InvalidateToken", rfAttempt),
                                        Called("SetAccount", rfAttempt, 0, account, NilError)>>
                /\ rfCached' = account
                /\ RefreshReturn(NilError)
                /\ UNCHANGED <<rfAttempt, rfLastErr>>
           ELSE IF rfCfg.platform = PlatformAntigravity /\ isNonRetryableRefreshError(err)
           THEN /\ rfLog' = Append(saved, Called("SetError", rfAttempt, 0, NilCredentials, err))
                /\ RefreshReturn(err)
                /\ UNCHANGED <<rfAttempt, rfLastErr, rfCached>>
           ELSE /\ rfLastErr' = err
                /\ rfLog' = IF hasRetryLeft(rfAttempt, rfCfg.MaxRetries)
                            THEN Append(saved, Called("Sleep", rfAttempt,
                                                      backoff(rfCfg.RetryBackoffSeconds, rfAttempt),
                                                      NilCredentials, NilError))
                            ELSE saved
                /\ rfAttempt' = rfAttempt + 1
                /\ UNCHANGED <<rfpc, rfRet, rfCounts, rfCached>>
    /\ UNCHANGED rfCfg
    /\ UNCHANGED nonRfVars

(* The loop is over without a return from inside it. *)
RefreshExhausted ==
    /\ rfpc = "loop"
    /\ rfAttempt > rfCfg.MaxRetries
    /\ rfLog' = IF rfCfg.platform = PlatformAntigravity THEN rfLog
                ELSE Append(rfLog, Called("SetError", rfAttempt, 0, NilCredentials, rfLastErr))
    /\ RefreshReturn(rfLastErr)
    /\ UNCHANGED <<rfCfg, rfAttempt, rfLastErr, rfAccount, rfStored, rfCached>>
    /\ UNCHANGED nonRfVars

----------------------------------------------------------------------------
(* TokenRefreshService: Start, Stop and refreshLoop *)

MaxCycles == 3
NumStoppers == 3
Stoppers == 1..NumStoppers

InitLifecycleWith(enabled) ==
    /\ stopCh = "open"
    /\ wg = 0
    /\ lcEnabled \in enabled
    /\ lcStarted = FALSE
    /\ lcLoop = "none"
    /\ lcStop = [who \in Stoppers |-> "idle"]
    /\ lcCycles = 0
    /\ lcLate = 0

StopReturned == \E who \in Stoppers : lcStop[who] = "returned"

(* processRefresh starts a cycle. *)
CycleStarted ==
    /\ lcCycles' = lcCycles + 1
    /\ lcLate' = IF StopReturned THEN lcLate + 1 ELSE lcLate

(* Start: nothing when the service is disabled, else wg.Add(1) and
   go s.refreshLoop() *)
ServiceStart ==
    /\ ~lcStarted
    /\ lcStarted' = TRUE
    /\ IF lcEnabled
       THEN wg' = wg + 1 /\ lcLoop' = "first"
       ELSE UNCHANGED <<wg, lcLoop>>
    /\ UNCHANGED <<stopCh, lcEnabled, lcStop, lcCycles, lcLate>>
    /\ UNCHANGED nonLcVars

(* refreshLoop: the check it runs at once when it starts *)
LoopFirstCheck ==
    /\ lcLoop = "first"
    /\ lcLoop' = "select"
    /\ CycleStarted
    /\ UNCHANGED <<stopCh, wg, lcEnabled, lcStarted, lcStop>>
    /\ UNCHANGED nonLcVars

(* refreshLoop: case <-ticker.C *)
LoopTick ==
    /\ lcLoop = "select"
    /\ lcCycles < MaxCycles
    /\ CycleStarted
    /\ UNCHANGED <<stopCh, wg, lcEnabled, lcStarted, lcLoop, lcStop>>
    /\ UNCHANGED nonLcVars

(* refreshLoop: case <-s.stopCh, return, and the deferred wg.Done() *)
LoopStopped ==
    /\ lcLoop = "select"
    /\ stopCh = "closed"
    /\ lcLoop' = "exited"
    /\ wg' = wg - 1
    /\ UNCHANGED <<stopCh, lcEnabled, lcStarted, lcStop, lcCycles, lcLate>>
    /\ UNCHANGED nonLcVars

(* close(ch): closing a closed channel panics *)
close(ch) ==
    IF ch = "closed" THEN [panics |-> TRUE, ch |-> ch]
    ELSE [panics |-> FALSE, ch |-> "closed"]

(* Stop: close(s.stopCh) *)
StopClose(who) ==
    /\ lcStop[who] = "idle"
    /\ LET c == close(stopCh) IN
        /\ stopCh' = c.ch
        /\ lcStop' = [lcStop EXCEPT ![who] = IF c.panics THEN "panicked" ELSE "waiting"]
    /\ UNCHANGED <<wg, lcEnabled, lcStarted, lcLoop, lcCycles, lcLate>>
    /\ UNCHANGED nonLcVars

(* Stop: s.wg.Wait() returns when the counter is zero *)
StopWait(who) ==
    /\ lcStop[who] = "waiting"
    /\ wg = 0
    /\ lcStop' = [lcStop EXCEPT ![who] = "returned"]
    /\ UNCHANGED <<stopCh, wg, lcEnabled, lcStarted, lcLoop, lcCycles, lcLate>>
    /\ UNCHANGED nonLcVars

----------------------------------------------------------------------------
(* RateLimiter.Limit: the Redis rate-limit middleware *)

MaxRequests == 3
MaxLimit == 2
RateWindow == 2
MaxRateTime == 3
ClientIPs == {"10.0.0.1", "10.0.0.2"}
LimiterKey == "login"

(* redisKey := r.prefix + key + ":" + ip *)
redisKey(key, ip) == <<"rate_limit:", key, ":", ip>>

RateKeys == {redisKey(LimiterKey, ip) : ip \in ClientIPs}

(* No such key. `epoch` counts how often the key has been created. *)
NoCounter == [count |-> 0, hasExpiry |-> FALSE, expireAt |-> 0, createdAt |-> 0, epoch |-> 0]

(* The key exists: it was set and its expiry, if it has one, is ahead. *)
LiveCounter(c, now) == c.count > 0 /\ (c.hasExpiry => now < c.expireAt)

(* INCR: one more, or 1 for a key that does not exist *)
Incr(c, now) ==
    IF LiveCounter(c, now) THEN [c EXCEPT !.count = @ + 1]
    ELSE [count |-> 1, hasExpiry |-> FALSE, expireAt |-> 0,
          createdAt |-> now, epoch |-> c.epoch + 1]

(* EXPIRE key window *)
Expire(c, now, window) == [c EXCEPT !.hasExpiry = TRUE, !.expireAt = now + window]

exceededLate(count, limit) == count > limit + 1

(* `if count > int64(limit)` *)
exceeded(count, limit) == count > limit

(* What the Redis calls of one request can do: INCR answers or fails; the
   EXPIRE of the first request is done, fails, or is never sent because
   the process stops after the INCR. *)
IncrOutcomes == {"ok", "error"}
ExpireOutcomes == {"ok", "error", "stopped"}

Seen(ip, incr, did, c) ==
    [ip |-> ip, incr |-> incr, did |-> did, count |-> c.count, epoch |-> c.epoch]

InitRateWith(limits) ==
    /\ rlLimit \in limits
    /\ rlTime = 0
    /\ rlKeys = [k \in RateKeys |-> NoCounter]
    /\ rlLog = <<>>

(* The handler Limit returns, for one request. *)
Limit ==
    /\ Len(rlLog) < MaxRequests
    /\ \E ip \in ClientIPs, incr \in IncrOutcomes, expire \in ExpireOutcomes :
        LET key == redisKey(LimiterKey, ip)
            old == rlKeys[key]
            counted == Incr(old, rlTime)
            first == counted.count = 1
            kept == IF first /\ expire = "ok" THEN Expire(counted, rlTime, RateWindow)
                    ELSE counted
        IN
        IF incr = "error"
        THEN /\ expire = "ok"
             /\ rlLog' = Append(rlLog, Seen(ip, incr, "next",
                                            IF LiveCounter(old, rlTime) THEN old
                                            ELSE [NoCounter EXCEPT !.epoch = old.epoch]))
             /\ UNCHANGED rlKeys
        ELSE /\ first \/ expire = "ok"
             /\ rlKeys' = [rlKeys EXCEPT ![key] = kept]
             /\ rlLog' = Append(rlLog, Seen(ip, incr,
                                            IF first /\ expire = "stopped" THEN "none"
                                            ELSE IF exceeded(counted.count, rlLimit) THEN "429"
                                            ELSE "next",
                                            counted))
    /\ UNCHANGED <<rlLimit, rlTime>>
    /\ UNCHANGED nonRlVars

(* The server's clock moves on by a second. *)
RateTick ==
    /\ rlTime < MaxRateTime
    /\ rlTime' = rlTime + 1
    /\ UNCHANGED <<rlLimit, rlKeys, rlLog>>
    /\ UNCHANGED nonRlVars

----------------------------------------------------------------------------
(* TimingWheelService: ScheduleRecurring and Cancel *)

MaxRuns == 3
TaskNames == {"cleanup", "report"}

InitTimingWheel ==
    /\ twScheduled = {}
    /\ twTimers = {}
    /\ twRunning = {}
    /\ twCancelled = {}
    /\ twRuns = [name \in TaskNames |-> 0]
    /\ twLate = [name \in TaskNames |-> 0]

(* tw.SetTimer(name, schedule, interval): the name has a timer from now on *)
SetTimer(timers, name) == timers \cup {name}

(* tw.RemoveTimer(name): the name's timer, if it has one, is taken out *)
RemoveTimer(timers, name) == timers \ {name}

(* ScheduleRecurring: the initial SetTimer *)
ScheduleRecurring(name) ==
    /\ name \notin twScheduled
    /\ twScheduled' = twScheduled \cup {name}
    /\ twTimers' = SetTimer(twTimers, name)
    /\ UNCHANGED <<twRunning, twCancelled, twRuns, twLate>>
    /\ UNCHANGED nonTwVars

(* The timer is due: the wheel takes it out and executes the closure
   schedule, which begins with fn(). *)
TimerFires(name) ==
    /\ name \in twTimers
    /\ name \notin twRunning
    /\ twRuns[name] < MaxRuns
    /\ twTimers' = twTimers \ {name}
    /\ twRunning' = twRunning \cup {name}
    /\ twRuns' = [twRuns EXCEPT ![name] = @ + 1]
    /\ twLate' = IF name \in twCancelled THEN [twLate EXCEPT ![name] = @ + 1] ELSE twLate
    /\ UNCHANGED <<twScheduled, twCancelled>>
    /\ UNCHANGED nonTwVars

(* schedule: fn() has returned and the closure sets its timer again. *)
TaskReschedules(name) ==
    /\ name \in twRunning
    /\ twRunning' = twRunning \ {name}
    /\ twTimers' = SetTimer(twTimers, name)
    /\ UNCHANGED <<twScheduled, twCancelled, twRuns, twLate>>
    /\ UNCHANGED nonTwVars

(* Cancel(name) *)
Cancel(name) ==
    /\ name \in twScheduled
    /\ name \notin twCancelled
    /\ twTimers' = RemoveTimer(twTimers, name)
    /\ twCancelled' = twCancelled \cup {name}
    /\ UNCHANGED <<twScheduled, twRunning, twRuns, twLate>>
    /\ UNCHANGED nonTwVars

----------------------------------------------------------------------------
(* Specifications *)

InitForward ==
    /\ pc = "idle"
    /\ req = NoRequest
    /\ attempt = 1
    /\ upstreamLog = <<>>
    /\ sleeps = <<>>
    /\ notifyLog = <<>>
    /\ client = NoWrite
    /\ result = NoResult
    /\ handled = "none"

InitStream ==
    /\ usage = ZeroUsage
    /\ spc = "reading"
    /\ firstStart = NoStart
    /\ lastOut = 0
    /\ nLines = 0
    /\ written = 0
    /\ handler = "handleStreamingResponse"
    /\ unflushed = 0
    /\ broken = FALSE
    /\ streamRes = NoStreamResult
    /\ fwdRes = NoStreamResult

InitTransformWith(inputs) ==
    /\ xpc = "start"
    /\ xreq \in inputs
    /\ xi = 0
    /\ xrole = ""
    /\ xblk = NoBlock
    /\ xadded = 0
    /\ xblocks = 0
    /\ parts = <<>>
    /\ nBuilt = 0
    /\ strippedThinking = FALSE
    /\ nContents = 0
    /\ thinkingConfig = FALSE

InitSchemaWith(inputs) ==
    /\ scpc = "input"
    /\ schema \in inputs
    /\ cleanedOnce = Nil
    /\ cleanedTwice = Nil

InitWarn ==
    /\ warnedSchemaKeys = {}
    /\ wpc = [w \in Workers |-> "idle"]
    /\ wkey = [w \in Workers |-> ""]
    /\ wcalls = [w \in Workers |-> 0]
    /\ diagnostics = [k \in StrippedKeys |-> 0]

InitResolveWith(models) ==
    /\ rpc = "input"
    /\ rRequested \in models
    /\ rAccount \in IF models = {<<>>} THEN {<<>>} ELSE AccountResults(rRequested)
    /\ rResolved = <<>>

NoConfigRequest ==
    [model |-> <<"claude-", "haiku-4-5">>, account |-> <<>>, thinking |-> "nil",
     budget |-> 0, stripped |-> FALSE]

InitConfigWith(inputs) ==
    /\ gpc = "input"
    /\ gReq \in inputs
    /\ gMapped = <<>>
    /\ gConfig = NoThinkingConfig

InitToolResultWith(blocks) ==
    /\ tpc = "input"
    /\ tBlock \in blocks
    /\ tGemini \in IF blocks = {NoBlock} THEN {FALSE} ELSE BOOLEAN
    /\ tParts = <<>>

InitSecretsWith(tables) ==
    /\ rows \in tables
    /\ rows0 = rows
    /\ sop = [who \in Callers |-> NoCall]
    /\ secpc = [who \in Callers |-> "idle"]
    /\ sgen = [who \in Callers |-> EmptySecret]
    /\ sret = [who \in Callers |-> NoReturn]
    /\ scfg = [who \in Callers |-> EmptySecret]

InitContext == cancelled = FALSE

InitRPM ==
    /\ redisTime = 0
    /\ redisKeys = <<>>
    /\ rpmLog = <<>>

InitServices ==
    /\ InitRefreshWith({NoRefresh})
    /\ InitLifecycleWith({FALSE})
    /\ InitRateWith({0})
    /\ InitTimingWheel

InitExtOnly ==
    /\ InitResolveWith({<<>>})
    /\ InitConfigWith({NoConfigRequest})
    /\ InitToolResultWith({NoBlock})
    /\ InitSecretsWith({<<>>})
    /\ InitRPM
    /\ InitContext

InitExt == InitExtOnly /\ InitServices

NoTransform ==
    [isThinkingEnabled |-> FALSE, mappedModel |-> <<"claude-", "sonnet-4-5">>, n |-> 1]

InitCore ==
    InitForward /\ InitStream /\ InitTransformWith({NoTransform})
                /\ InitSchemaWith({Nil}) /\ InitWarn

Init == InitCore /\ InitExt

(* A streaming response has arrived and one of the handlers starts on it. *)
InitHandlers ==
    /\ InitForward
    /\ usage = ZeroUsage
    /\ spc = "reading"
    /\ firstStart = NoStart
    /\ lastOut = 0
    /\ nLines = 0
    /\ written = 0
    /\ handler \in StreamHandlers
    /\ unflushed = 0
    /\ broken = FALSE
    /\ streamRes = NoStreamResult
    /\ fwdRes = NoStreamResult
    /\ InitTransformWith({NoTransform}) /\ InitSchemaWith({Nil}) /\ InitWarn /\ InitExt

Next ==
    \/ ForwardStart
    \/ ForwardAttempt
    \/ ForwardGeminiStart
    \/ ForwardGeminiAttempt

Spec == Init /\ [][Next]_vars

NextStream ==
    \/ StreamLine
    \/ StreamEOF
    \/ StreamReadError

SpecStream == Init /\ [][NextStream]_vars

NextHandlers ==
    \/ StreamLine
    \/ StreamEOF
    \/ StreamReadError
    \/ ClaudeStreamLine
    \/ ClaudeStreamEOF
    \/ ClaudeStreamReadError
    \/ GeminiStreamLine
    \/ GeminiStreamEOF
    \/ GeminiStreamReadError
    \/ ForwardReturn

SpecHandlers == InitHandlers /\ [][NextHandlers]_vars

InitTransform ==
    InitForward /\ InitStream /\ InitTransformWith(TransformInputs) /\ InitSchemaWith({Nil}) /\ InitWarn /\ InitExt

NextTransform ==
    \/ BeginMessage
    \/ AddBlock
    \/ EndMessage
    \/ TransformFinish

SpecTransform == InitTransform /\ [][NextTransform]_vars

InitSchema ==
    /\ InitForward /\ InitStream /\ InitTransformWith({NoTransform})
    /\ InitSchemaWith(Schemas) /\ InitWarn /\ InitExt

NextSchema ==
    \/ CleanSchema
    \/ CleanAgain

SpecSchema == InitSchema /\ [][NextSchema]_vars

NextWarn ==
    \/ \E w \in Workers : StripKey(w)
    \/ \E w \in Workers : LogRemoval(w)

SpecWarn == Init /\ [][NextWarn]_vars

NextResolve ==
    \/ ResolveModel
    \/ ResolveReset

InitResolve ==
    /\ InitCore /\ InitResolveWith(RequestedModels)
    /\ InitConfigWith({NoConfigRequest}) /\ InitToolResultWith({NoBlock})
    /\ InitSecretsWith({<<>>}) /\ InitRPM /\ InitContext /\ InitServices

SpecResolve == InitResolve /\ [][NextResolve]_vars

InitConfig ==
    /\ InitCore /\ InitResolveWith({<<>>}) /\ InitConfigWith(ConfigRequests)
    /\ InitToolResultWith({NoBlock}) /\ InitSecretsWith({<<>>}) /\ InitRPM /\ InitContext /\ InitServices

NextConfig ==
    \/ ResolveForConfig
    \/ BuildGenerationConfig

SpecConfig == InitConfig /\ [][NextConfig]_vars

InitToolResult ==
    /\ InitCore /\ InitResolveWith({<<>>}) /\ InitConfigWith({NoConfigRequest})
    /\ InitToolResultWith(ToolResultBlocks) /\ InitSecretsWith({<<>>}) /\ InitRPM /\ InitContext /\ InitServices

NextToolResult == BuildToolResult

SpecToolResult == InitToolResult /\ [][NextToolResult]_vars

(* The table is empty or holds one row for the key. *)
SecretTables ==
    {<<>>} \cup {<<Row(securitySecretKeyJWT, v)>> : v \in StoredSecrets}

InitSecrets ==
    /\ InitCore /\ InitResolveWith({<<>>}) /\ InitConfigWith({NoConfigRequest})
    /\ InitToolResultWith({NoBlock}) /\ InitSecretsWith(SecretTables) /\ InitRPM /\ InitContext /\ InitServices

NextSecrets ==
    \/ \E who \in Callers : SecretCall(who)
    \/ \E who \in Callers : SecretInsert(who)
    \/ \E who \in Callers : SecretReread(who)

SpecSecrets == InitSecrets /\ [][NextSecrets]_vars

NextCancel ==
    \/ ForwardStart
    \/ ForwardAttempt
    \/ ContextCancel

SpecCancel == Init /\ [][NextCancel]_vars

NextRPM ==
    \/ IncrementRPM
    \/ GetRPM
    \/ RedisTick

SpecRPM == Init /\ [][NextRPM]_vars

InitRefresh ==
    /\ InitCore /\ InitExtOnly /\ InitRefreshWith(RefreshConfigs)
    /\ InitLifecycleWith({FALSE})
    /\ InitRateWith({0})
    /\ InitTimingWheel

NextRefresh ==
    \/ RefreshStart
    \/ RefreshAttempt
    \/ RefreshExhausted

SpecRefresh == InitRefresh /\ [][NextRefresh]_vars

InitLifecycle ==
    /\ InitCore /\ InitExtOnly /\ InitRefreshWith({NoRefresh})
    /\ InitLifecycleWith(BOOLEAN)
    /\ InitRateWith({0})
    /\ InitTimingWheel

NextLifecycle ==
    \/ ServiceStart
    \/ LoopFirstCheck
    \/ LoopTick
    \/ LoopStopped
    \/ \E who \in Stoppers : StopClose(who)
    \/ \E who \in Stoppers : StopWait(who)

SpecLifecycle == InitLifecycle /\ [][NextLifecycle]_vars

InitRate ==
    /\ InitCore /\ InitExtOnly /\ InitRefreshWith({NoRefresh})
    /\ InitLifecycleWith({FALSE})
    /\ InitRateWith(1..MaxLimit)
    /\ InitTimingWheel

NextRate ==
    \/ Limit
    \/ RateTick

SpecRate == InitRate /\ [][NextRate]_vars

NextTimingWheel ==
    \/ \E name \in TaskNames : ScheduleRecurring(name)
    \/ \E name \in TaskNames : TimerFires(name)
    \/ \E name \in TaskNames : TaskReschedules(name)
    \/ \E name \in TaskNames : Cancel(name)

SpecTimingWheel == Init /\ [][NextTimingWheel]_vars

----------------------------------------------------------------------------
(* Properties of the forwarding/retry engine *)

Blank(s) == \A i \in 1..Len(s) : s[i] \in SpaceChars

AllOutcomes(x) == \A i \in 1..Len(upstreamLog) : upstreamLog[i] = x

InForward == req.op = "Forward" /\ pc # "idle"

NotifiedAt(i, site) ==
    \E j \in 1..Len(notifyLog) :
        notifyLog[j].attempt = i /\ notifyLog[j].site = site

(* C1: when the upstream answers 503 on every attempt, Forward keeps
   retrying until it has issued exactly antigravityMaxRetries upstream
   calls, and then returns an UpstreamFailoverError carrying status 503. *)
C1_Exhausted503Failover ==
    (InForward /\ upstreamLog # <<>> /\ AllOutcomes(503)) =>
        IF Len(upstreamLog) < antigravityMaxRetries
        THEN pc = "retry"
        ELSE /\ pc = "done"
             /\ Len(upstreamLog) = antigravityMaxRetries
             /\ result.kind = "failover"
             /\ result.status = 503

C1_Witness ==
    /\ InForward /\ pc = "done"
    /\ upstreamLog = <<503, 503, 503, 503, 503>>
    /\ result.kind = "failover"

(* C2: when the upstream answers 503 on attempts 1..N-1 and 200 on attempt
   N = antigravityMaxRetries, Forward has issued exactly N upstream calls,
   hands the 200 response to the response path and returns a ForwardResult
   (it succeeds) when that path ends without error. *)
C2_SucceedsOnLastAttempt ==
    /\ (/\ InForward /\ upstreamLog # <<>> /\ AllOutcomes(503)
        /\ Len(upstreamLog) < antigravityMaxRetries) =>
           /\ pc = "retry"
           /\ attempt = Len(upstreamLog) + 1
    /\ (/\ InForward
        /\ Len(upstreamLog) >= antigravityMaxRetries
        /\ \A i \in 1..(antigravityMaxRetries - 1) : upstreamLog[i] = 503
        /\ upstreamLog[antigravityMaxRetries] = 200) =>
           /\ pc = "done"
           /\ Len(upstreamLog) = antigravityMaxRetries
           /\ handled # "none"
           /\ notifyLog = <<>>
           /\ handled = "ok" => /\ result.kind = "ok"
                                /\ client.status = 200

C2_Witness ==
    /\ InForward /\ pc = "done"
    /\ upstreamLog = <<503, 503, 503, 503, 200>>
    /\ result.kind = "ok"

(* C3: when the first upstream attempt answers 400, Forward issues exactly
   one upstream call, never sleeps, writes the mapped Claude error
   (400 invalid_request_error) and returns an error that is no
   UpstreamFailoverError. *)
C3_NoRetryOn400 ==
    (InForward /\ upstreamLog # <<>> /\ upstreamLog[1] = 400) =>
        /\ pc = "done"
        /\ Len(upstreamLog) = 1
        /\ sleeps = <<>>
        /\ result.kind = "upstream_error"
        /\ client = [status |-> 400, errType |-> "invalid_request_error"]

C3_Witness ==
    /\ InForward /\ pc = "done"
    /\ upstreamLog = <<400>>
    /\ result.kind = "upstream_error"

(* C4: after the retry loop, for a final upstream status >= 400, Forward
   returns UpstreamFailoverError (carrying that status, nothing written to
   the client) exactly when the status is 401, 403, 429, 529 or >= 500;
   for every other status >= 400 it writes a mapped error envelope and
   returns a non-failover error. *)
C4_FailoverIffEligible ==
    (/\ InForward /\ pc = "done"
     /\ upstreamLog # <<>>
     /\ upstreamLog[Len(upstreamLog)] >= 400) =>
        LET last == upstreamLog[Len(upstreamLog)] IN
        IF last \in {401, 403, 429, 529} \/ last >= 500
        THEN /\ result.kind = "failover"
             /\ result.status = last
             /\ client = NoWrite
        ELSE /\ result.kind = "upstream_error"
             /\ client.errType \in {"invalid_request_error", "upstream_error"}
             /\ client.status >= 400

C4_Witness ==
    /\ InForward /\ pc = "done"
    /\ upstreamLog = <<503, 404>>
    /\ result.kind = "upstream_error"
    /\ client = [status |-> 502, errType |-> "upstream_error"]

(* C5: inside the retry loop the rate-limit collaborator is notified on
   every attempt that answered 429, and for 500, 502, 503, 504 and 529 it
   is not notified for an attempt that is retried. *)
C5_NotifyEvery429 ==
    \A i \in 1..Len(upstreamLog) :
        /\ upstreamLog[i] = 429 => NotifiedAt(i, "loop")
        /\ (upstreamLog[i] \in {500, 502, 503, 504, 529}
            /\ i < antigravityMaxRetries) =>
               ~NotifiedAt(i, "loop") /\ ~NotifiedAt(i, "after")

(* C6: a transport-level failure is retried on attempts 1..N-1; when all N
   attempts fail at transport level Forward has issued exactly N upstream
   calls, writes 502 upstream_error and returns a terminal error that is
   no UpstreamFailoverError. *)
C6_TransportFailureRetried ==
    /\ (/\ InForward /\ upstreamLog # <<>>
        /\ upstreamLog[Len(upstreamLog)] = TransportError
        /\ Len(upstreamLog) < antigravityMaxRetries) =>
           /\ pc = "retry"
           /\ attempt = Len(upstreamLog) + 1
           /\ Len(sleeps) = Len(upstreamLog)
    /\ (/\ InForward /\ AllOutcomes(TransportError)
        /\ Len(upstreamLog) >= antigravityMaxRetries) =>
           /\ pc = "done"
           /\ Len(upstreamLog) = antigravityMaxRetries
           /\ result.kind = "upstream_unavailable"
           /\ client = [status |-> 502, errType |-> "upstream_error"]
           /\ notifyLog = <<>>

C6_Witness ==
    /\ InForward /\ pc = "done"
    /\ upstreamLog = <<0, 0, 0, 0, 0>>
    /\ result.kind = "upstream_unavailable"

(* C7: a request whose model is missing, empty or only white space makes
   Forward fail with an input error, and no upstream call is attempted. *)
C7_BlankModelRejected ==
    (InForward /\ Blank(req.model)) =>
        /\ pc = "done"
        /\ result.kind \in {"parse_error", "missing_model"}
        /\ upstreamLog = <<>>
        /\ sleeps = <<>>
        /\ notifyLog = <<>>

C7_Witness ==
    /\ InForward /\ pc = "done"
    /\ req.jsonOK /\ req.model = <<"TAB", "SP">>
    /\ req.tokenProvider = "ok" /\ ~Blank(req.project_id)
    /\ result.kind = "missing_model"

(* C8: when the token provider is absent or fails, or the account's
   project_id credential is missing or blank, Forward returns a terminal
   error without entering the retry loop: no upstream call, no backoff. *)
C8_PreconditionsTerminal ==
    (InForward /\ (req.tokenProvider # "ok" \/ Blank(req.project_id))) =>
        /\ pc = "done"
        /\ upstreamLog = <<>>
        /\ sleeps = <<>>
        /\ result.kind \notin {"none", "ok", "failover"}
        /\ (req.jsonOK /\ ~Blank(req.model)) =>
               result.kind \in {"provider_missing", "token_error", "project_error"}

C8_Witness ==
    /\ InForward /\ pc = "done"
    /\ req.tokenProvider = "ok" /\ req.project_id = <<"SP", "NL">>
    /\ result.kind = "project_error"

----------------------------------------------------------------------------
(* Properties of the streaming usage accumulator *)

(* C9: the accumulated output-token count is the one carried by the last
   message_delta with a non-zero output count; a later event with a zero or
   absent output count never erases it. *)
C9_LastNonZeroOutputWins ==
    lastOut # 0 => usage.OutputTokens = lastOut

(* C10: the accumulated input-token and cache-token counts are those of
   the first message_start observed: a count that message_start set (to a
   non-zero value) is not changed by any later event. *)
C10_FirstStartWins ==
    firstStart.seen =>
        /\ firstStart.InputTokens # 0 =>
               usage.InputTokens = firstStart.InputTokens
        /\ firstStart.CacheCreationInputTokens # 0 =>
               usage.CacheCreationInputTokens = firstStart.CacheCreationInputTokens
        /\ firstStart.CacheReadInputTokens # 0 =>
               usage.CacheReadInputTokens = firstStart.CacheReadInputTokens

----------------------------------------------------------------------------
(* Properties of the streaming handlers *)

(* C11: when a write to the client fails in handleClaudeStreamingResponse
   after an event was delivered and usage was gathered, the caller of Forward receives a result
   that carries the usage gathered up to the failure. *)
C11_WriteFailureReturnsUsage ==
    ( /\ handler = "handleClaudeStreamingResponse"
      /\ streamRes.err = "write"
      /\ written >= 1
      /\ usage # ZeroUsage
      /\ fwdRes.returned )
    => (fwdRes.hasResult /\ fwdRes.usage = usage)

(* C12: in all three streaming handlers, whenever the loop is about to read
   the next upstream line and whenever the handler has returned, no event
   accepted by the client writer is left unflushed. *)
C12_EveryWriteFlushed == unflushed = 0

C12_Witness ==
    /\ handler = "handleClaudeStreamingResponse"
    /\ written >= 2
    /\ spc = "finished"

----------------------------------------------------------------------------
(* Properties of the request transformer *)

(* The parts buildParts returned for the message at hand, without the
   synthetic part put before them. *)
Built == SubSeq(parts, Len(parts) - nBuilt + 1, Len(parts))

ThoughtParts(ps) == {k \in 1..Len(ps) : ps[k].thought}

LastPart == parts[Len(parts)]

(* The final message, an assistant message without a thought part of its
   own, has been built under the gemini- policy with thinking enabled. *)
FinalAssistantWithoutThought ==
    /\ xpc \in {"emitted", "done"}
    /\ xi = xreq.n
    /\ allowDummyThought
    /\ xreq.isThinkingEnabled
    /\ xrole = "model"
    /\ ~HasThoughtPart(Built)

(* C13 as stated: under the gemini- policy with thinking enabled, a final
   assistant message without a thought part of its own comes out with
   exactly one thought part, which is first and is the synthetic
   "Thinking..." part with the dummy signature. *)
C13_FinalAssistantGetsDummy ==
    FinalAssistantWithoutThought =>
        /\ Len(parts) >= 1
        /\ parts[1] = DummyThoughtPart
        /\ Cardinality(ThoughtParts(parts)) = 1

(* C13 amended: the same, for a final assistant message that yields at
   least one part; one that yields no parts gets no synthetic part and is
   left out of contents. *)
C13_NonEmptyFinalAssistantGetsDummy ==
    FinalAssistantWithoutThought =>
        IF nBuilt > 0
        THEN /\ Len(parts) = nBuilt + 1
             /\ parts[1] = DummyThoughtPart
             /\ ThoughtParts(parts) = {1}
        ELSE parts = <<>>

C13_Witness ==
    /\ FinalAssistantWithoutThought
    /\ xreq.n = 2
    /\ nBuilt = 2
    /\ Len(parts) = 3

(* C14: a message that is not the last one of the conversation is emitted
   with exactly the parts buildParts returned: nothing is put before them,
   whatever the policy, the thinking setting and the content. *)
C14_DummyOnlyOnLast ==
    (xpc = "emitted" /\ xi < xreq.n) => parts = Built /\ Len(parts) = nBuilt

C14_Witness ==
    /\ xpc = "emitted"
    /\ xi < xreq.n
    /\ allowDummyThought
    /\ xreq.isThinkingEnabled
    /\ xrole = "model"
    /\ parts # <<>>
    /\ ~HasThoughtPart(parts)

(* buildParts has just handled a thinking block without a signature under
   the genuine-signature policy. *)
UnsignedThinkingHandled ==
    /\ xpc = "blocks"
    /\ ~allowDummyThought
    /\ xblk.type = "thinking"
    /\ xblk.signature = ""

(* C15 as stated: under the genuine-signature policy a thinking block
   without a signature comes out as one ordinary text part carrying its
   text, and the finished request has no thinking config. *)
C15_UnsignedThinkingBecomesText ==
    /\ UnsignedThinkingHandled =>
          (xadded = 1 /\ LastPart = TextPart(xblk.thinking))
    /\ (xpc = "done" /\ strippedThinking) => ~thinkingConfig

(* C15 amended: under the genuine-signature policy a thinking block
   without a signature never comes out as a thought part: it comes out as
   one ordinary text part when its text is not blank and as nothing when
   it is blank; either way the downgrade is recorded and the finished
   request has no thinking config, even if the caller enabled thinking. *)
C15_UnsignedThinkingNeverThought ==
    /\ UnsignedThinkingHandled =>
          /\ strippedThinking
          /\ IF Blank(xblk.thinking)
             THEN xadded = 0
             ELSE xadded = 1 /\ LastPart = TextPart(xblk.thinking)
    /\ (xpc = "done" /\ strippedThinking) => ~thinkingConfig

C15_Witness ==
    /\ xpc = "done"
    /\ ~allowDummyThought
    /\ xreq.isThinkingEnabled
    /\ xblk.type = "thinking"
    /\ xblk.signature = ""
    /\ ~Blank(xblk.thinking)
    /\ xadded = 1
    /\ ~thinkingConfig

(* C16: a tool_use block comes out as one function-call part whose
   signature is the dummy signature under the gemini- policy and, under
   the genuine-signature policy, the block's own signature when that is
   neither empty nor the dummy signature, and no signature otherwise. *)
C16_ToolUseSignature ==
    (xpc = "blocks" /\ xblk.type = "tool_use") =>
        /\ xadded = 1
        /\ LastPart.functionCall
        /\ ~LastPart.thought
        /\ LastPart.thoughtSignature =
             IF allowDummyThought THEN dummyThoughtSignature
             ELSE IF xblk.signature \in {"", dummyThoughtSignature} THEN ""
             ELSE xblk.signature

C16_Witness ==
    /\ xpc = "blocks"
    /\ xblk.type = "tool_use"
    /\ ~allowDummyThought
    /\ xblk.signature = dummyThoughtSignature
    /\ LastPart.thoughtSignature = ""

----------------------------------------------------------------------------
(* Properties of the schema sanitizer *)

(* C17: cleaning a cleaned schema changes nothing:
   cleanJSONSchema(cleanJSONSchema(s)) = cleanJSONSchema(s). *)
C17_CleanIdempotent ==
    scpc = "recleaned" => cleanedTwice = cleanedOnce

C17_Witness ==
    /\ scpc = "recleaned"
    /\ schema # Nil
    /\ cleanedOnce # schema
    /\ {"maxProperties", "type", "properties", "required"} \subseteq DOMAIN schema.map
    /\ IsList(schema.map["type"])
    /\ "required" \notin DOMAIN cleanedOnce.map

(* Every required array in the tree names only keys of the properties
   object next to it, and is not empty. *)
RECURSIVE RequiredWithinProperties(_)
RequiredWithinProperties(value) ==
    IF IsMap(value)
    THEN LET v == value.map IN
         /\ ("required" \in DOMAIN v /\ IsList(v["required"])) =>
               /\ v["required"].list # <<>>
               /\ "properties" \in DOMAIN v
               /\ IsMap(v["properties"])
               /\ \A i \in 1..Len(v["required"].list) :
                    /\ IsStr(v["required"].list[i])
                    /\ v["required"].list[i].str \in DOMAIN v["properties"].map
         /\ \A k \in DOMAIN v : RequiredWithinProperties(v[k])
    ELSE IF IsList(value)
    THEN \A i \in 1..Len(value.list) : RequiredWithinProperties(value.list[i])
    ELSE TRUE

(* Wherever the tree has a properties key, its value is an object. *)
RECURSIVE PropertiesAreObjects(_)
PropertiesAreObjects(value) ==
    IF IsMap(value)
    THEN /\ "properties" \in DOMAIN value.map => IsMap(value.map["properties"])
         /\ \A k \in DOMAIN value.map : PropertiesAreObjects(value.map[k])
    ELSE IF IsList(value)
    THEN \A i \in 1..Len(value.list) : PropertiesAreObjects(value.list[i])
    ELSE TRUE

(* C18: in the output of cleanJSONSchema for a schema whose properties are
   objects, every required array, at any level of the tree, lists only
   names that are keys of the properties object next to it, and no
   required array is empty. *)
C18_RequiredNamesProperties ==
    (scpc # "input" /\ schema # Nil /\ PropertiesAreObjects(schema))
        => RequiredWithinProperties(cleanedOnce)

(* C19: however the concurrent requests interleave, the removal
   diagnostic of a validation key is printed at most once (and never for
   a key that is no validation key). *)
C19_DiagnosticAtMostOnce ==
    \A k \in StrippedKeys :
        /\ diagnostics[k] <= 1
        /\ k \notin schemaValidationKeys => diagnostics[k] = 0

C19_Witness ==
    /\ wpc[1] = "log"
    /\ wkey[1] = "pattern"
    /\ wpc[2] = "idle"
    /\ wkey[2] = "pattern"
    /\ wcalls[2] = 1
    /\ diagnostics["pattern"] = 0

----------------------------------------------------------------------------
(* C20: a Forward call that succeeds returns a result whose model is the
   model name of the caller's request, as sent, also when getMappedModel
   resolved another model for the upstream. *)
C20_ResultCarriesOriginalModel ==
    (InForward /\ pc = "done" /\ result.kind = "ok") => result.model = req.model

C20_Witness ==
    /\ InForward
    /\ pc = "done"
    /\ result.kind = "ok"
    /\ req.model = <<"SP", "m">>
    /\ mappedModel = <<"claude-", "sonnet-4-5">>
    /\ Len(upstreamLog) = 2

----------------------------------------------------------------------------
(* Properties of model resolution *)

Fallback == <<"claude-", "sonnet-4-5">>

HasOverride == rAccount # rRequested

InSystemMap == rRequested \in DOMAIN antigravityModelMapping

HasFamilyPrefix == HasPrefix(rRequested, <<"gemini-">>)

(* C21 as stated: the resolved model is the account override when there is
   one, else the system default map's entry, else the requested model itself
   when it carries the gemini- prefix, else the hard-coded fallback. *)
C21_FourRulePriority ==
    rpc = "resolved" =>
        rResolved = IF HasOverride THEN rAccount
                    ELSE IF InSystemMap THEN antigravityModelMapping[rRequested]
                    ELSE IF HasFamilyPrefix THEN rRequested
                    ELSE Fallback

(* C21 amended: between the prefix rule and the fallback stands a fifth rule,
   a model of the directly supported set passes through unchanged; each rule
   applies only when every rule above it has no entry. *)
C21_FiveRulePriority ==
    rpc = "resolved" =>
        /\ HasOverride => rResolved = rAccount
        /\ ~HasOverride /\ InSystemMap =>
               rResolved = antigravityModelMapping[rRequested]
        /\ ~HasOverride /\ ~InSystemMap /\ HasFamilyPrefix =>
               rResolved = rRequested
        /\ /\ ~HasOverride /\ ~InSystemMap /\ ~HasFamilyPrefix
           /\ rRequested \in antigravitySupportedModels
           => rResolved = rRequested
        /\ /\ ~HasOverride /\ ~InSystemMap /\ ~HasFamilyPrefix
           /\ rRequested \notin antigravitySupportedModels
           => rResolved = Fallback

(* An override has beaten a system default map entry. *)
C21_Witness ==
    /\ rpc = "resolved"
    /\ HasOverride
    /\ InSystemMap
    /\ rResolved = rAccount
    /\ rResolved # antigravityModelMapping[rRequested]

----------------------------------------------------------------------------
(* Properties of the generation config *)

(* C22: with thinking enabled and a resolved target model of the
   gemini-2.5-flash family, the emitted thinkingBudget never exceeds 24576,
   whatever budget and whatever model name the caller sent. *)
C22_FlashBudgetCapped ==
    gpc = "built" /\ gConfig.thinkingConfig /\ ContainsGemini25Flash(gMapped)
        => gConfig.thinkingBudget <= 24576

----------------------------------------------------------------------------
(* Properties of countTokens *)

LastOutcome == upstreamLog[Len(upstreamLog)]

CountTokensFailed ==
    /\ pc = "done"
    /\ req.op = "ForwardGemini"
    /\ req.action = "countTokens"
    /\ upstreamLog # <<>>
    /\ LastOutcome = TransportError \/ LastOutcome >= 400

(* C23: a countTokens request whose last upstream attempt failed (transport
   failure, retryable status on the last attempt, or any final status >= 400)
   is answered with HTTP 200 and a local estimate, and ForwardGemini returns
   a success result, not an error. *)
C23_CountTokensDegrades ==
    CountTokensFailed =>
        /\ client.status = 200
        /\ client.errType = "totalTokens"
        /\ result.kind = "ok"
        /\ ~result.stream

(* countTokens answered 429 on all five attempts and still succeeded. *)
C23_Witness ==
    /\ CountTokensFailed
    /\ Len(upstreamLog) = 5
    /\ AllOutcomes(429)
    /\ client.status = 200
    /\ result.kind = "ok"

----------------------------------------------------------------------------
(* Properties of tool results *)

(* The content carries nothing: it is left out or null, a string of white
   space, or an array none of whose items has text other than white space. *)
EmptyContent(content) ==
    \/ content.kind \in {"absent", "null"}
    \/ content.kind = "string" /\ Blank(content.str)
    \/ /\ content.kind = "array"
       /\ \A k \in 1..Len(content.items) :
              content.items[k].hasText => Blank(content.items[k].text)

(* C24: a content list that is one tool_result with empty content yields
   one function response whose result text is "Command executed
   successfully." when isError is false and "Tool execution failed with no
   output." when isError is true. *)
C24_EmptyToolResultSentinel ==
    tpc = "built" /\ EmptyContent(tBlock.content) =>
        /\ Len(tParts) = 1
        /\ tParts[1].functionResponse.set
        /\ tParts[1].functionResponse.result =
              IF tBlock.is_error
              THEN <<"Tool execution failed with no output.">>
              ELSE <<"Command executed successfully.">>

(* An error result whose content is an array of one item without text. *)
C24_Witness ==
    /\ tpc = "built"
    /\ tBlock.is_error
    /\ tBlock.content.kind = "array"
    /\ Len(tBlock.content.items) = 1
    /\ ~tBlock.content.items[1].hasText
    /\ tParts[1].functionResponse.result = <<"Tool execution failed with no output.">>

----------------------------------------------------------------------------
(* Properties of the bootstrap secrets *)

SecretsDone == {who \in Callers : secpc[who] = "done"}

NoCallRunning == \A who \in Callers : secpc[who] \in {"idle", "done"}

(* Every call made so far is a getOrCreateGeneratedSecuritySecret on a key
   that had no row. *)
OnlyGeneratingCalls ==
    /\ rows0 = <<>>
    /\ \A who \in Callers :
          sop[who].name \in {"none", "getOrCreateGeneratedSecuritySecret"}

(* C25: when any number of concurrent getOrCreateGeneratedSecuritySecret
   calls on one initially absent key have returned, each has succeeded, all
   return the same secret, exactly one reports created, and the table holds
   exactly one row for the key. *)
C25_ConcurrentCreationAgrees ==
    OnlyGeneratingCalls /\ NoCallRunning /\ SecretsDone # {} =>
        /\ \A who \in SecretsDone : sret[who].returned /\ sret[who].err = "none"
        /\ \A a \in SecretsDone : \A b \in SecretsDone : sret[a].value = sret[b].value
        /\ Cardinality({who \in SecretsDone : sret[who].created}) = 1
        /\ Cardinality(RowsOf(rows, securitySecretKeyJWT)) = 1

(* All callers have returned, and two of them had generated a secret of
   their own that lost against the third's. *)
C25_Witness ==
    /\ OnlyGeneratingCalls
    /\ SecretsDone = Callers
    /\ Cardinality({who \in Callers :
                        sgen[who] # EmptySecret /\ ~sret[who].created}) >= 2

(* The caller has returned from createSecuritySecretIfAbsent, called alone
   or by ensureBootstrapSecrets with a configured secret. *)
CreatedIfAbsent(who) ==
    /\ secpc[who] = "done"
    /\ sop[who].name \in {"createSecuritySecretIfAbsent", "ensureBootstrapSecrets"}
    /\ ~Generates(sop[who])

(* C26 as stated: with a row for the key in place, createSecuritySecretIfAbsent
   (and ensureBootstrapSecrets with a configured secret) returns success,
   leaves the stored value as it was, and one row exists afterwards. *)
C26_ExistingRowKept ==
    rows0 # <<>> =>
        \A who \in Callers :
            CreatedIfAbsent(who) =>
                /\ sret[who].err = "none"
                /\ rows = rows0
                /\ Cardinality(RowsOf(rows, securitySecretKeyJWT)) = 1

(* C26 amended: the call succeeds when its trimmed value has at least 32
   bytes and fails when it is shorter; either way the stored value is left
   as it was and one row exists afterwards. *)
C26_ExistingRowKeptForValidValue ==
    rows0 # <<>> =>
        \A who \in Callers :
            CreatedIfAbsent(who) =>
                /\ sop[who].value.len >= 32 => sret[who].err = "none"
                /\ sop[who].value.len < 32 => sret[who].err = "too_short"
                /\ rows = rows0
                /\ Cardinality(RowsOf(rows, securitySecretKeyJWT)) = 1

(* ensureBootstrapSecrets with a configured secret other than the stored
   one has returned success and the stored one is still there. *)
C26_Witness ==
    /\ rows0 # <<>>
    /\ \E who \in Callers :
          /\ CreatedIfAbsent(who)
          /\ sop[who].name = "ensureBootstrapSecrets"
          /\ sop[who].value.len >= 32
          /\ sret[who].err = "none"
          /\ rows[1].value # TrimSecret(sop[who].value)
          /\ rows = rows0

----------------------------------------------------------------------------
(* Properties of the request counters *)

(* The increments for the account answered before call i of the log, in
   the server-clock minute of call i. *)
IncrementsBefore(i) ==
    {j \in 1..(i - 1) :
        /\ rpmLog[j].op = "IncrementRPM"
        /\ rpmLog[j].accountID = rpmLog[i].accountID
        /\ rpmLog[j].at \div 60 = rpmLog[i].at \div 60}

(* C27: the k IncrementRPM calls for one account within one server-clock
   minute return 1..k, each value once, in the order the server runs them,
   and a GetRPM in that minute returns the number of increments before it
   (0 when there were none). *)
C27_IncrementCountsPerMinute ==
    \A i \in 1..Len(rpmLog) :
        rpmLog[i].count =
            Cardinality(IncrementsBefore(i))
            + (IF rpmLog[i].op = "IncrementRPM" THEN 1 ELSE 0)

(* Three increments in one minute, not the first minute, then a GetRPM
   that returns 3. *)
C27_Witness ==
    /\ Len(rpmLog) = 4
    /\ rpmLog[4].op = "GetRPM"
    /\ rpmLog[4].count = 3
    /\ rpmLog[4].at >= 60
    /\ \A i \in 1..3 : rpmLog[i].op = "IncrementRPM" /\ rpmLog[i].count = i

----------------------------------------------------------------------------
(* Properties of the schema sanitizer: property names *)

HasProperties(value) ==
    IsMap(value) /\ "properties" \in DOMAIN value.map /\ IsMap(value.map["properties"])

PropertyNames(value) == DOMAIN value.map["properties"].map

(* The names the required array of the schema lists. *)
RequiredNames(value) ==
    IF "required" \in DOMAIN value.map /\ IsList(value.map["required"])
    THEN {value.map["required"].list[i].str :
            i \in {j \in 1..Len(value.map["required"].list) :
                      IsStr(value.map["required"].list[j])}}
    ELSE {}

(* C28: the sanitizer removes schema keywords only: every key of the
   properties object of the input schema (a parameter named pattern, say) is
   a key of the properties object of the output, and stays in required if it
   was required. *)
C28_PropertyNamesKept ==
    (scpc # "input" /\ schema # Nil /\ HasProperties(schema)) =>
        /\ HasProperties(cleanedOnce)
        /\ PropertyNames(schema) \subseteq PropertyNames(cleanedOnce)
        /\ (RequiredNames(schema) \cap PropertyNames(schema))
              \subseteq RequiredNames(cleanedOnce)

----------------------------------------------------------------------------
(* Properties of the rate-limit reports *)

(* C29: within one Forward or ForwardGemini call the rate-limit
   collaborator is invoked at most once for the response of one attempt:
   the final failing response is not reported in the loop and once more
   after it. *)
C29_ReportedOncePerResponse ==
    \A i \in 1..Len(notifyLog) : \A j \in 1..Len(notifyLog) :
        i # j => notifyLog[i].attempt # notifyLog[j].attempt

----------------------------------------------------------------------------
(* Properties of cancellation *)

(* C30: once the inbound request's context is cancelled, Forward starts no
   further upstream attempt and sleeps no further backoff. *)
C30_NoAttemptAfterCancel ==
    [][cancelled => upstreamLog' = upstreamLog /\ sleeps' = sleeps]_vars

----------------------------------------------------------------------------
(* Properties of the signature policy *)

(* C31: under the genuine-signature policy (resolved model without the
   gemini- prefix) no part of the emitted request carries the dummy
   signature skip_thought_signature_validator, whatever signatures the
   thinking and tool_use blocks of the request carry. *)
C31_NoDummyUnderGenuinePolicy ==
    ~allowDummyThought =>
        \A k \in 1..Len(parts) :
            parts[k].thoughtSignature # "skip_thought_signature_validator"

----------------------------------------------------------------------------
(* Properties of the token refresh service *)

CallsOf(op) == {k \in 1..Len(rfLog) : rfLog[k].op = op}

RefreshReturned == rfpc = "returned"

(* C32: refreshWithRetry calls Refresh at most MaxRetries times (not at all
   when MaxRetries is zero or negative), makes no call after the first
   successful Refresh, and sleeps RetryBackoffSeconds * 2^(attempt-1) only
   after a failed attempt that another attempt follows, never after the
   last attempt. *)
C32_BoundedRefreshAndBackoff ==
    /\ Cardinality(CallsOf("Refresh"))
           <= (IF rfCfg.MaxRetries > 0 THEN rfCfg.MaxRetries ELSE 0)
    /\ \A i \in CallsOf("Refresh") :
        rfLog[i].err = NilError => \A j \in CallsOf("Refresh") : j <= i
    /\ \A k \in CallsOf("Sleep") :
        /\ rfLog[k].seconds = rfCfg.RetryBackoffSeconds * 2 ^ (rfLog[k].attempt - 1)
        /\ rfLog[k].attempt < rfCfg.MaxRetries
        /\ \E i \in CallsOf("Refresh") :
            i < k /\ rfLog[i].attempt = rfLog[k].attempt /\ rfLog[i].err # NilError
        /\ \A j \in (k + 1)..Len(rfLog) : rfLog[j].attempt > rfLog[k].attempt
        /\ RefreshReturned => k < Len(rfLog)

C32_Witness ==
    /\ RefreshReturned
    /\ rfCfg.MaxRetries = MaxRetriesBound
    /\ Cardinality(CallsOf("Refresh")) = MaxRetriesBound
    /\ Cardinality(CallsOf("Sleep")) = MaxRetriesBound - 1
    /\ rfRet # NilError

RefreshFailed == RefreshReturned /\ rfRet # NilError

MarkedError == CallsOf("SetError") # {}

UpdateFailed == \E k \in CallsOf("Update") : rfLog[k].err # NilError

(* The message names invalid_grant, invalid_client, unauthorized_client,
   access_denied or missing_project_id, in any case of letters. *)
NamesNonRetryable(err) ==
    \E i \in 1..Len(err) :
        toLower(err[i]) \in {"invalid_grant", "invalid_client", "unauthorized_client",
                             "access_denied", "missing_project_id"}

(* Refresh returned a non-retryable error for an Antigravity account. *)
NonRetryableAntigravity ==
    /\ rfCfg.platform = PlatformAntigravity
    /\ \E k \in CallsOf("Refresh") : NamesNonRetryable(rfLog[k].err)

(* Every one of the MaxRetries attempts was made and failed. *)
AllAttemptsFailed ==
    /\ Cardinality(CallsOf("Refresh")) = rfCfg.MaxRetries
    /\ \A k \in CallsOf("Refresh") : rfLog[k].err # NilError

MarkingRule ==
    \/ NonRetryableAntigravity
    \/ rfCfg.platform # PlatformAntigravity /\ AllAttemptsFailed

NoAttemptAfterNonRetryable ==
    rfCfg.platform = PlatformAntigravity =>
        \A k \in CallsOf("Refresh") :
            NamesNonRetryable(rfLog[k].err) =>
                \A j \in CallsOf("Refresh") : j <= k

(* C33: a failed refreshWithRetry calls SetError exactly when the account
   is an Antigravity account and Refresh returned a non-retryable error
   (and then no further attempt is made), or the account is of another
   platform and all MaxRetries attempts failed. *)
C33_MarkedErrorExactlyWhen ==
    /\ RefreshFailed => (MarkedError <=> MarkingRule)
    /\ NoAttemptAfterNonRetryable

(* C33, amended: the rule holds for the calls that did not return on a
   failed accountRepo.Update; a call that returns on a failed Update never
   calls SetError. *)
C33_MarkedErrorUnlessSaveFailed ==
    /\ RefreshFailed =>
        IF UpdateFailed THEN ~MarkedError ELSE (MarkedError <=> MarkingRule)
    /\ NoAttemptAfterNonRetryable
    /\ (/\ RefreshFailed
        /\ rfCfg.platform = PlatformAntigravity
        /\ ~NonRetryableAntigravity) => ~MarkedError

C33_Witness ==
    /\ RefreshFailed
    /\ ~UpdateFailed
    /\ NonRetryableAntigravity
    /\ MarkedError
    /\ Cardinality(CallsOf("Refresh")) = 2
    /\ rfCfg.MaxRetries = MaxRetriesBound

(* C34: credentials that Refresh returns are handed to accountRepo.Update
   as the very next call, with or without an error from Refresh; a failed
   Update is the last call refreshWithRetry makes, so no Refresh, no
   InvalidateToken and no SetAccount follows it, and the scheduler cache
   only ever receives credentials that the repository holds. *)
C34_PersistedBeforeCached ==
    /\ \A k \in CallsOf("Refresh") :
        rfLog[k].credentials # NilCredentials =>
            /\ k < Len(rfLog)
            /\ rfLog[k + 1].op = "Update"
            /\ rfLog[k + 1].credentials = rfLog[k].credentials
    /\ \A k \in CallsOf("Update") :
        rfLog[k].err # NilError =>
            /\ k = Len(rfLog)
            /\ RefreshFailed
            /\ rfCached = OldCredentials
    /\ \A k \in CallsOf("SetAccount") : rfLog[k].credentials = rfStored
    /\ rfCached \in {OldCredentials, rfStored}

C34_Witness ==
    /\ UpdateFailed
    /\ rfLog[Len(rfLog) - 1].op = "Refresh"
    /\ rfLog[Len(rfLog) - 1].err # NilError
    /\ rfLog[Len(rfLog) - 1].attempt = 2
    /\ rfStored = NewCredentials(1)
    /\ rfAccount = NewCredentials(2)

RefreshSucceeded == \E k \in CallsOf("Refresh") : rfLog[k].err = NilError

(* C35: refreshWithRetry returns nil only if some Refresh call returned
   without error, for every MaxRetries; a call that returns nil has not
   called SetError; and processRefresh counts the account as refreshed
   only if its token was refreshed. *)
C35_NilOnlyAfterSuccess ==
    /\ (RefreshReturned /\ rfRet = NilError) => (RefreshSucceeded /\ ~MarkedError)
    /\ rfCounts.refreshed > 0 => RefreshSucceeded

(* C40: Stop can be called more than once, and without a Start before it,
   and no call panics; once a Stop has returned the refresh loop has
   exited and no further refresh cycle starts. *)
C40_StopIsRepeatable ==
    /\ \A who \in Stoppers : lcStop[who] # "panicked"
    /\ StopReturned => (lcLoop \in {"none", "exited"} /\ lcLate = 0)

----------------------------------------------------------------------------
(* Properties of the rate-limit middleware *)

(* The requests of one client in one life of its counter that were passed
   on to the next handler. *)
PassedOn(ip, epoch) ==
    {k \in 1..Len(rlLog) :
        rlLog[k].ip = ip /\ rlLog[k].epoch = epoch /\ rlLog[k].did = "next"}

Counted(k) == rlLog[k].incr = "ok"

(* C36: for one limiter key and client IP at most `limit` requests are
   passed on within one window, the window starting with the request that
   created the counter; every further request of that window is aborted
   with 429. *)
C36_AtMostLimitPerWindow ==
    \A ip \in ClientIPs, epoch \in 1..MaxRequests :
        /\ Cardinality(PassedOn(ip, epoch)) <= rlLimit
        /\ \A k \in 1..Len(rlLog) :
            (rlLog[k].ip = ip /\ rlLog[k].epoch = epoch /\ rlLog[k].count > rlLimit)
                => rlLog[k].did = "429"

(* C36, amended: the bound holds for the requests whose INCR was answered;
   a request whose INCR failed is passed on without being counted. *)
C36_AtMostLimitCountedPerWindow ==
    /\ \A ip \in ClientIPs, epoch \in 1..MaxRequests :
        /\ Cardinality({k \in PassedOn(ip, epoch) : Counted(k)}) <= rlLimit
        /\ \A k \in 1..Len(rlLog) :
            (/\ Counted(k) /\ rlLog[k].ip = ip /\ rlLog[k].epoch = epoch
             /\ rlLog[k].count > rlLimit) => rlLog[k].did = "429"
    /\ \A k \in 1..Len(rlLog) : ~Counted(k) => rlLog[k].did = "next"

C36_Witness ==
    /\ rlLimit = MaxLimit
    /\ Len(rlLog) = MaxLimit + 1
    /\ \A k \in 1..Len(rlLog) :
        /\ Counted(k)
        /\ rlLog[k].ip = "10.0.0.1"
        /\ rlLog[k].epoch = 1
        /\ rlLog[k].did = (IF k <= MaxLimit THEN "next" ELSE "429")

(* C37: every rate-limit counter that exists in Redis has an expiry and is
   gone one window after it was created, so a rejected client is admitted
   again by then, also when the Expire call failed or the process stopped
   between the INCR and the Expire. *)
C37_EveryCounterExpires ==
    \A key \in RateKeys :
        LiveCounter(rlKeys[key], rlTime) =>
            /\ rlKeys[key].hasExpiry
            /\ rlTime < rlKeys[key].createdAt + RateWindow

----------------------------------------------------------------------------
(* Properties of the timing wheel service *)

(* C38: once Cancel(name) has returned for a task registered with
   ScheduleRecurring, its task function is never executed again, also
   when Cancel was called while the task function was running. *)
C38_NoRunAfterCancel ==
    \A name \in TaskNames : twLate[name] = 0

----------------------------------------------------------------------------
(* Properties of the bootstrap secrets *)

BootstrapSucceeded(who) ==
    /\ sop[who].name = "ensureBootstrapSecrets"
    /\ secpc[who] = "done"
    /\ sret[who].err = "none"

(* C39: after ensureBootstrapSecrets has returned successfully the JWT
   secret in the configuration is the value stored under jwt_secret (up to
   surrounding white space), whether it was generated, loaded or supplied
   by the configuration. *)
C39_ConfigSecretIsStoredSecret ==
    \A who \in Callers :
        BootstrapSucceeded(who) =>
            \E i \in RowsOf(rows, securitySecretKeyJWT) :
                TrimSecret(rows[i].value) = scfg[who]

============================================================================
